---- MODULE Spec2Model ----
(***************************************************************************)
(* A state-machine model of the trigger/memory engine (class MemoryEngine) *)
(* and of the chat application's sendMessage that drives it (app.js).      *)
(*                                                                         *)
(* Representation.                                                         *)
(*  - A JS Map is a sequence of records in insertion order (Map iteration  *)
(*    order); an id is the value of a counter (generateId is unique).       *)
(*  - A nullable value is a sequence of length 0 (null / missing key) or 1. *)
(*  - A time is a number of ticks; TicksPerDay ticks make one day of        *)
(*    1000*60*60*24 ms.  A calendar date (the 'YYYY-MM-DD' part of an ISO   *)
(*    string, UTC) is the day number  time \div TicksPerDay.                *)
(*  - localStorage is the record `storage`, one nullable field per key;     *)
(*    a stored table is the array that JSON.stringify was given.            *)
(*  - Strings are atoms; toLowerCase, trim and length are given by their    *)
(*    values on the strings the specifications draw inputs from.            *)
(***************************************************************************)
EXTENDS Integers, Sequences, FiniteSets, TLC

VARIABLES
  triggers,   \* this.triggers : Map id -> Trigger, in insertion order
  memories,   \* this.memories : Map id -> Memory, in insertion order
  apiKey,     \* this.apiKey   : nullable
  storage,    \* localStorage  : the three v2 keys and the legacy key
  now,        \* the wall clock, in ticks
  nextId,     \* number of ids generateId has produced so far
  exported,   \* the last document written by exportData (as JSON), nullable
  scans,      \* the scanMessage calls suspended at an await, oldest first
  state,      \* the application's state object: apiKey, chatHistory, isTyping
  sends,      \* the sendMessage calls that have not finished, oldest first
  lastOp      \* the operation that produced this state, and what it wrote

vars == <<triggers, memories, apiKey, storage, now, nextId, exported, scans,
          state, sends, lastOp>>

----------------------------------------------------------------------------
(* Bounds of the model *)

TicksPerDay == 2
MaxTime == 5
MaxIds == 3
MaxScored == 1
MaxExpanded == 2
MaxUsage == 2
HorizonDays == 40
MaxScans == 1
MaxScanned == 1
MaxAccess == 2
MaxAsked == 6
MaxRecent == 6
MaxClock == 1
MaxLoaded == 2
MaxChat == 3

(* Scoring constants of the constructor *)

SCORE_NEW_TRIGGER == 50
SCORE_USAGE_BONUS == 5
SCORE_DECAY_PER_DAY == 2
SCORE_ACTIVE_THRESHOLD == 50
SCORE_ARCHIVE_THRESHOLD == 20

----------------------------------------------------------------------------
(* Nullable values and array helpers *)

None == <<>>
Some(x) == <<x>>
IsSome(o) == Len(o) > 0
Get(o) == o[1]

Includes(seq, x) == \E i \in 1..Len(seq) : seq[i] = x

Range(seq) == {seq[i] : i \in 1..Len(seq)}

NoDuplicates(seq) == \A i, j \in 1..Len(seq) : seq[i] = seq[j] => i = j

Max(a, b) == IF a >= b THEN a ELSE b

\* Array.prototype.filter(v => v !== x)
Without(seq, x) == SelectSeq(seq, LAMBDA v : v # x)

\* [...new Set(seq)] : first occurrences, in order
RECURSIVE Dedup(_)
Dedup(seq) ==
  IF seq = <<>> THEN <<>>
  ELSE LET front == Dedup(SubSeq(seq, 1, Len(seq) - 1))
           last == seq[Len(seq)]
       IN IF Includes(front, last) THEN front ELSE Append(front, last)

\* Map.get(id) on a table: the index of the record with that id, 0 if none
IndexOf(table, id) ==
  IF \E i \in 1..Len(table) : table[i].id = id
  THEN CHOOSE i \in 1..Len(table) : table[i].id = id
  ELSE 0

Has(table, id) == IndexOf(table, id) # 0

Lookup(table, id) == table[IndexOf(table, id)]

\* Map.set(id, rec): replaces in place when the key exists, else appends
MapSet(table, rec) ==
  IF Has(table, rec.id)
  THEN [table EXCEPT ![IndexOf(table, rec.id)] = rec]
  ELSE Append(table, rec)

\* Map.delete(id)
MapDelete(table, id) == SelectSeq(table, LAMBDA r : r.id # id)

----------------------------------------------------------------------------
(* Strings: String.prototype.toLowerCase, trim and length on the input     *)
(* strings used below (every other string used is lower-case, trimmed     *)
(* and longer than two characters).                                        *)

toLowerCase(s) ==
  CASE s = "Paris" -> "paris"
    [] s = "Boulot" -> "boulot"
    [] s = " Job " -> " job "
    [] s = "XY" -> "xy"
    [] s = "Capitale" -> "capitale"
    [] s = "Bonjour" -> "bonjour"
    [] s = "Je vais à Paris" -> "je vais à paris"
    [] s = "Mon boulot" -> "mon boulot"
    [] OTHER -> s

trim(s) ==
  CASE s = " job " -> "job"
    [] s = " Job " -> "Job"
    [] s = " " -> ""
    [] OTHER -> s

ShortStrings == {"", "a", "xy", "XY"}

\* word.length > 1
LengthOver1(s) == s \notin {"", "a"}

\* word.length > 2
LengthOver2(s) == s \notin ShortStrings

\* String.prototype.includes: the pairs <<text, word>>, word a trigger word
\* or synonym used below, such that word occurs in text and is not all of it
Occurrences ==
  {<<"je vais à paris", "paris">>, <<"Je vais à Paris", "Paris">>,
   <<"mon boulot", "boulot">>, <<"Mon boulot", "boulot">>}

includes(text, word) == word = "" \/ word = text \/ <<text, word>> \in Occurrences

----------------------------------------------------------------------------
(* Synonym system *)

\* this.synonyms, as Object.entries lists it
synonyms == <<
  [key |-> "femme",    values |-> <<"épouse", "conjointe", "compagne">>],
  [key |-> "mari",     values |-> <<"époux", "conjoint", "compagnon">>],
  [key |-> "travail",  values |-> <<"boulot", "job", "emploi", "profession", "métier">>],
  [key |-> "enfant",   values |-> <<"fils", "fille", "gamin", "gosse", "kid">>],
  [key |-> "maison",   values |-> <<"domicile", "appartement", "appart", "logement", "chez moi">>],
  [key |-> "voiture",  values |-> <<"auto", "véhicule", "bagnole", "caisse">>],
  [key |-> "argent",   values |-> <<"fric", "thune", "pognon", "sous", "finances">>],
  [key |-> "manger",   values |-> <<"bouffer", "dîner", "déjeuner", "repas">>],
  [key |-> "aimer",    values |-> <<"adorer", "kiffer", "apprécier", "affectionner">>],
  [key |-> "détester", values |-> <<"haïr", "ne pas supporter", "avoir horreur">>],
  [key |-> "content",  values |-> <<"heureux", "joyeux", "ravi", "satisfait">>],
  [key |-> "triste",   values |-> <<"malheureux", "déprimé", "abattu", "morose">>],
  [key |-> "fatigué",  values |-> <<"épuisé", "crevé", "lessivé", "exténué">>],
  [key |-> "stressé",  values |-> <<"anxieux", "angoissé", "tendu", "nerveux">>]
>>

\* this.synonyms[lowerWord], or the empty list when there is no such key
DirectSynonyms(lowerWord) ==
  IF \E i \in 1..Len(synonyms) : synonyms[i].key = lowerWord
  THEN synonyms[CHOOSE i \in 1..Len(synonyms) : synonyms[i].key = lowerWord].values
  ELSE <<>>

\* the forEach over Object.entries(this.synonyms), from entry i on
RECURSIVE ReverseLookup(_, _, _)
ReverseLookup(result, lowerWord, i) ==
  IF i > Len(synonyms) THEN result
  ELSE LET e == synonyms[i]
       IN IF Includes(e.values, lowerWord) /\ ~Includes(result, e.key)
          THEN ReverseLookup(result \o <<e.key>> \o Without(e.values, lowerWord),
                             lowerWord, i + 1)
          ELSE ReverseLookup(result, lowerWord, i + 1)

\* getSynonyms without its reverse lookup
getSynonymsDirect(word) ==
  Dedup(DirectSynonyms(trim(toLowerCase(word))))

getSynonyms(word) ==
  LET lowerWord == trim(toLowerCase(word))
  IN Dedup(ReverseLookup(DirectSynonyms(lowerWord), lowerWord, 1))

----------------------------------------------------------------------------
(* Time *)

\* now.toISOString().split('T')[0]
Today(at) == at \div TicksPerDay

\* new Date('YYYY-MM-DD') : midnight UTC of that date
DateOf(day) == day * TicksPerDay

\* Math.floor((a - b) / (1000 * 60 * 60 * 24))
DaysBetween(a, b) == (a - b) \div TicksPerDay

----------------------------------------------------------------------------
(* Records *)

\* a trigger created with the default importance whatever it is given
NewTriggerDefault(id, word, category, importance, at) ==
  [id |-> id,
   word |-> trim(toLowerCase(word)),
   synonyms |-> getSynonyms(word),
   score |-> SCORE_NEW_TRIGGER + (5 * 2),
   usageCount |-> 0,
   lastUsed |-> None,
   memoryLinks |-> <<>>,
   category |-> category,
   createdAt |-> at]

NewTrigger(id, word, category, importance, at) ==
  [id |-> id,
   word |-> trim(toLowerCase(word)),
   synonyms |-> getSynonyms(word),
   score |-> SCORE_NEW_TRIGGER + (importance * 2),
   usageCount |-> 0,
   lastUsed |-> None,
   memoryLinks |-> <<>>,
   category |-> category,
   createdAt |-> at]

NewMemory(id, content, category, importance, linkedTriggerIds, at) ==
  [id |-> id,
   content |-> content,
   category |-> category,
   importance |-> importance,
   triggerLinks |-> linkedTriggerIds,
   createdAt |-> at,
   accessCount |-> 0]

\* a forEach of createMemory that stops after the first linked trigger
LinkTriggersFirst(table, linkedTriggerIds, memId) ==
  IF linkedTriggerIds = <<>> THEN table
  ELSE LET i == IndexOf(table, Head(linkedTriggerIds))
       IN IF i # 0 /\ ~Includes(table[i].memoryLinks, memId)
          THEN [table EXCEPT ![i].memoryLinks = Append(@, memId)]
          ELSE table

\* the forEach of createMemory: push the memory id on each linked trigger
\* that exists and does not list it yet
RECURSIVE LinkTriggers(_, _, _)
LinkTriggers(table, linkedTriggerIds, memId) ==
  IF linkedTriggerIds = <<>> THEN table
  ELSE LET triggerId == Head(linkedTriggerIds)
           i == IndexOf(table, triggerId)
           linked ==
             IF i # 0 /\ ~Includes(table[i].memoryLinks, memId)
             THEN [table EXCEPT ![i].memoryLinks = Append(@, memId)]
             ELSE table
       IN LinkTriggers(linked, Tail(linkedTriggerIds), memId)

----------------------------------------------------------------------------
(* Scoring system *)

\* calculateScore without its Math.max(0, ...)
calculateScoreUnclamped(trigger, at) ==
  LET lastUsed == IF IsSome(trigger.lastUsed) THEN Get(trigger.lastUsed)
                  ELSE trigger.createdAt
  IN trigger.usageCount * 2 + trigger.score
       - DaysBetween(at, lastUsed) * SCORE_DECAY_PER_DAY

calculateScore(trigger, at) ==
  LET lastUsed == IF IsSome(trigger.lastUsed) THEN Get(trigger.lastUsed)
                  ELSE trigger.createdAt
      daysSinceUse == DaysBetween(at, lastUsed)
      baseScore == trigger.score
      usageBonus == trigger.usageCount * 2
      decayPenalty == daysSinceUse * SCORE_DECAY_PER_DAY
  IN Max(0, usageBonus + baseScore - decayPenalty)

\* activateTrigger without its usageCount++
ActivatedUncounted(trigger, at) ==
  [trigger EXCEPT !.lastUsed = Some(at), !.score = @ + SCORE_USAGE_BONUS]

\* the three assignments of activateTrigger
Activated(trigger, at) ==
  [trigger EXCEPT !.usageCount = @ + 1,
                  !.lastUsed = Some(at),
                  !.score = @ + SCORE_USAGE_BONUS]

\* a decay that also forgets how often the trigger was used
DecayedForgetting(trigger, daysSinceDecay) ==
  [trigger EXCEPT !.score = Max(0, @ - (daysSinceDecay * SCORE_DECAY_PER_DAY)),
                  !.usageCount = 0]

\* the decay of one trigger's stored score
Decayed(trigger, daysSinceDecay) ==
  [trigger EXCEPT !.score = Max(0, @ - (daysSinceDecay * SCORE_DECAY_PER_DAY))]

\* daysSinceDecay of applyDailyDecay
DaysSinceDecay(lastDecay, at) ==
  IF IsSome(lastDecay) THEN DaysBetween(at, DateOf(Get(lastDecay))) ELSE 1

----------------------------------------------------------------------------
(* Persistence *)

\* save(): the two setItem calls
Saved(st, ts, ms) == [st EXCEPT !.triggers = Some(ts), !.memories = Some(ms)]

\* what an operation did: its name, the id it was given or produced, whether
\* that id was found, the number of save() calls and whether the decay
\* marker was written
Op(name, id, hit, saves, marker) ==
  [op |-> name, id |-> id, hit |-> hit, saves |-> saves, marker |-> marker]

----------------------------------------------------------------------------
(* The engine after construction over an empty localStorage at time 0:     *)
(* load() finds nothing, applyDailyDecay() writes the marker and saves.    *)

Init ==
  /\ triggers = <<>>
  /\ memories = <<>>
  /\ apiKey = None
  /\ storage = [triggers |-> Some(<<>>), memories |-> Some(<<>>),
                lastDecay |-> Some(Today(0)), legacy |-> None]
  /\ now = 0
  /\ nextId = 0
  /\ exported = None
  /\ scans = <<>>
  /\ state = [apiKey |-> None, chatHistory |-> <<>>, isTyping |-> FALSE]
  /\ sends = <<>>
  /\ lastOp = Op("constructor", 0, FALSE, 1, TRUE)

\* time passes
Tick ==
  /\ now' = now + 1
  /\ lastOp' = Op("tick", 0, FALSE, 0, FALSE)
  /\ UNCHANGED <<triggers, memories, apiKey, storage, nextId, exported, scans,
                 state, sends>>

SetApiKey(key) ==
  /\ apiKey' = Some(key)
  /\ lastOp' = Op("setApiKey", 0, FALSE, 0, FALSE)
  /\ UNCHANGED <<triggers, memories, storage, now, nextId, exported, scans,
                 state, sends>>

CreateTrigger(word, category, importance) ==
  /\ nextId' = nextId + 1
  /\ triggers' = MapSet(triggers, NewTrigger(nextId + 1, word, category, importance, now))
  /\ lastOp' = Op("createTrigger", nextId + 1, TRUE, 0, FALSE)
  /\ UNCHANGED <<memories, apiKey, storage, now, exported, scans, state, sends>>

CreateMemory(content, category, importance, linkedTriggerIds) ==
  /\ nextId' = nextId + 1
  /\ memories' = MapSet(memories,
                        NewMemory(nextId + 1, content, category, importance,
                                  linkedTriggerIds, now))
  /\ triggers' = LinkTriggers(triggers, linkedTriggerIds, nextId + 1)
  /\ lastOp' = Op("createMemory", nextId + 1, TRUE, 0, FALSE)
  /\ UNCHANGED <<apiKey, storage, now, exported, scans, state, sends>>

ActivateTrigger(triggerId) ==
  /\ IF ~Has(triggers, triggerId)
     THEN /\ lastOp' = Op("activateTrigger", triggerId, FALSE, 0, FALSE)
          /\ UNCHANGED <<triggers, storage>>
     ELSE /\ triggers' = [triggers EXCEPT ![IndexOf(triggers, triggerId)] = Activated(@, now)]
          /\ storage' = Saved(storage, triggers', memories)
          /\ lastOp' = Op("activateTrigger", triggerId, TRUE, 1, FALSE)
  /\ UNCHANGED <<memories, apiKey, now, nextId, exported, scans, state, sends>>

\* applyDailyDecay without its `if (lastDecay === today) return`
DailyDecayUnguarded(ts, ms, st, at) ==
  LET daysSinceDecay == DaysSinceDecay(st.lastDecay, at)
      decayed == [i \in 1..Len(ts) |-> Decayed(ts[i], daysSinceDecay)]
  IN [triggers |-> decayed,
      storage |-> Saved([st EXCEPT !.lastDecay = Some(Today(at))], decayed, ms),
      saves |-> 1, marker |-> TRUE]

\* applyDailyDecay on a table and a store: the table, the store, the number
\* of save() calls and whether the marker was written
DailyDecay(ts, ms, st, at) ==
  LET today == Today(at)
  IN IF st.lastDecay = Some(today)
     THEN [triggers |-> ts, storage |-> st, saves |-> 0, marker |-> FALSE]
     ELSE LET daysSinceDecay == DaysSinceDecay(st.lastDecay, at)
              decayed == [i \in 1..Len(ts) |-> Decayed(ts[i], daysSinceDecay)]
          IN [triggers |-> decayed,
              storage |-> Saved([st EXCEPT !.lastDecay = Some(today)], decayed, ms),
              saves |-> 1, marker |-> TRUE]

ApplyDailyDecay ==
  LET r == DailyDecay(triggers, memories, storage, now)
  IN /\ triggers' = r.triggers
     /\ storage' = r.storage
     /\ lastOp' = Op("applyDailyDecay", 0, FALSE, r.saves, r.marker)
     /\ UNCHANGED <<memories, apiKey, now, nextId, exported, scans,
                    state, sends>>

\* a forEach that stops after the first record
SetAllFirst(table, records) ==
  IF records = <<>> THEN table ELSE MapSet(table, Head(records))

\* the forEach of load() and of importData: Map.set of every record
RECURSIVE SetAll(_, _)
SetAll(table, records) ==
  IF records = <<>> THEN table
  ELSE SetAll(MapSet(table, Head(records)), Tail(records))

\* load(): each key that is present fills its table
Loaded(key) == IF IsSome(key) THEN SetAll(<<>>, Get(key)) ELSE <<>>

\* Stored values that are not the JSON of an array of records.  A stored
\* value is the sequence of the elements its text parses to; an element
\* other than a record is one of the two below (JSON null, a JSON number),
\* and a text that JSON.parse rejects, or that parses to something without
\* forEach, is the one-element sequence Unparsable or NotAnArray.
NullElement == [id |-> 0, json |-> "null"]
NumberElement == [id |-> 0, json |-> "number"]
Unparsable == <<[id |-> 0, json |-> "unparsable"]>>
NotAnArray == <<[id |-> 0, json |-> "object"]>>

\* a Map value that is a number: load() stored it under the key undefined
IsPrimitive(entry) == "json" \in DOMAIN entry

\* `elements.forEach(t => map.set(t.id, t))`: t.id throws on null and is
\* undefined on a number; gives the table and whether it threw
RECURSIVE SetEach(_, _)
SetEach(table, elements) ==
  IF elements = <<>> THEN [table |-> table, threw |-> FALSE]
  ELSE IF Head(elements) = NullElement THEN [table |-> table, threw |-> TRUE]
  ELSE SetEach(MapSet(table, Head(elements)), Tail(elements))

\* one key of load(): getItem, JSON.parse, forEach
LoadKey(key) ==
  IF ~IsSome(key) THEN [table |-> <<>>, threw |-> FALSE]
  ELSE IF Get(key) \in {Unparsable, NotAnArray} THEN [table |-> <<>>, threw |-> TRUE]
  ELSE IF \A i \in 1..Len(Get(key)) : ~IsPrimitive(Get(key)[i])
  THEN [table |-> Loaded(key), threw |-> FALSE]
  ELSE SetEach(<<>>, Get(key))

\* load(): one try block around both keys, so that a throw while the
\* triggers are read skips the memories
Load(st) ==
  LET t == LoadKey(st.triggers)
  IN [triggers |-> t.table,
      memories |-> IF t.threw THEN <<>> ELSE LoadKey(st.memories).table]

\* what a call that threw leaves in lastOp
Thrown(name, saves) ==
  [op |-> name, id |-> 0, hit |-> FALSE, saves |-> saves, marker |-> FALSE,
   thrown |-> TRUE]

\* migrateOldData: the memories created from the legacy key, ids from n + 1 on
RECURSIVE MigratedFrom(_, _, _)
MigratedFrom(old, n, at) ==
  IF old = <<>> THEN <<>>
  ELSE <<NewMemory(n + 1, Head(old).content,
                   IF Head(old).category = "" THEN "autre" ELSE Head(old).category,
                   IF Head(old).importance = 0 THEN 5 ELSE Head(old).importance,
                   <<>>, at)>>
       \o MigratedFrom(Tail(old), n + 1, at)

Migrates(st, ms) == IsSome(st.legacy) /\ Len(ms) = 0

\* new MemoryEngine() over the current localStorage: load, migrate, decay
\* (the class body is strict code: the decay's `trigger.score = ...` throws
\* a TypeError on a trigger that is a number, nothing catches it, and the
\* triggers before it in the Map have been decayed by then)
Constructor ==
  LET ts == Load(storage).triggers
      ms0 == Load(storage).memories
      mig == Migrates(storage, ms0)
      ms == IF mig THEN MigratedFrom(Get(storage.legacy), nextId, now) ELSE ms0
      st == IF mig THEN Saved(storage, ts, ms) ELSE storage
      r == DailyDecay(ts, ms, st, now)
      primitives == {i \in 1..Len(ts) : IsPrimitive(ts[i])}
      throws == st.lastDecay # Some(Today(now)) /\ primitives # {}
      first == CHOOSE i \in primitives : \A j \in primitives : i <= j
  IN /\ nextId' = nextId + (Len(ms) - Len(ms0))
     /\ IF throws
        THEN /\ triggers' = [i \in 1..Len(ts) |->
                               IF i < first
                               THEN Decayed(ts[i], DaysSinceDecay(st.lastDecay, now))
                               ELSE ts[i]]
             /\ storage' = st
             /\ lastOp' = Thrown("constructor", IF mig THEN 1 ELSE 0)
        ELSE /\ triggers' = r.triggers
             /\ storage' = r.storage
             /\ lastOp' = Op("constructor", 0, FALSE,
                             r.saves + (IF mig THEN 1 ELSE 0), r.marker)
     /\ memories' = ms
     /\ apiKey' = None
     /\ scans' = <<>>
     /\ UNCHANGED <<now, exported, state, sends>>

\* the store changed from outside the engine: a key removed, or a table's
\* text replaced
RemoveItem(key) ==
  /\ storage' = [storage EXCEPT ![key] = None]
  /\ lastOp' = Op("removeItem", 0, FALSE, 0, FALSE)
  /\ UNCHANGED <<triggers, memories, apiKey, now, nextId, exported, scans,
                 state, sends>>

SetItem(key, value) ==
  /\ storage' = [storage EXCEPT ![key] = Some(value)]
  /\ lastOp' = Op("setItem", 0, FALSE, 0, FALSE)
  /\ UNCHANGED <<triggers, memories, apiKey, now, nextId, exported, scans,
                 state, sends>>

\* saveMemories() of the old MemoryManager: its array written, as JSON,
\* under the key 'agi_memories'
SaveMemories(old) ==
  /\ storage' = [storage EXCEPT !.legacy = Some(old)]
  /\ lastOp' = Op("saveMemories", 0, FALSE, 0, FALSE)
  /\ UNCHANGED <<triggers, memories, apiKey, now, nextId, exported, scans,
                 state, sends>>

\* A suspended scanMessage holds copies `{...trigger, currentScore}` of the
\* triggers it found active.  The copy's memoryLinks is the trigger's own
\* array (links = None) until an operation gives the trigger another array
\* or removes the trigger; from then on the copy keeps the old array.
Detached(held, table, ids) ==
  IF held.id \in ids /\ ~IsSome(held.links) /\ Has(table, held.id)
  THEN [held EXCEPT !.links = Some(Lookup(table, held.id).memoryLinks)]
  ELSE held

\* the suspended calls after the triggers `ids` of `table` were replaced
Detach(calls, table, ids) ==
  [k \in 1..Len(calls) |->
     LET call == calls[k]
     IN [call EXCEPT
           !.activatedTriggers =
              [j \in 1..Len(call.activatedTriggers) |->
                 Detached(call.activatedTriggers[j], table, ids)],
           !.pending =
              [j \in 1..Len(call.pending) |-> Detached(call.pending[j], table, ids)]]]

\* the forEach of deleteMemory / deleteTrigger over the deleted record's own
\* link list: drop `id` from `field` of each listed record that exists
RECURSIVE Unlink(_, _, _, _)
Unlink(table, listed, field, id) ==
  IF listed = <<>> THEN table
  ELSE LET i == IndexOf(table, Head(listed))
           cut == IF i # 0 THEN [table EXCEPT ![i][field] = Without(@, id)] ELSE table
       IN Unlink(cut, Tail(listed), field, id)

DeleteMemory(id) ==
  /\ IF ~Has(memories, id)
     THEN /\ lastOp' = Op("deleteMemory", id, FALSE, 0, FALSE)
          /\ UNCHANGED <<triggers, memories, storage, scans>>
     ELSE /\ triggers' = Unlink(triggers, Lookup(memories, id).triggerLinks, "memoryLinks", id)
          /\ memories' = MapDelete(memories, id)
          /\ storage' = Saved(storage, triggers', memories')
          /\ scans' = Detach(scans, triggers, Range(Lookup(memories, id).triggerLinks))
          /\ lastOp' = Op("deleteMemory", id, TRUE, 1, FALSE)
  /\ UNCHANGED <<apiKey, now, nextId, exported, state, sends>>

\* deleteTrigger with its `if (!trigger) return` after the save
DeleteTriggerSaving(id) ==
  /\ IF ~Has(triggers, id)
     THEN /\ storage' = Saved(storage, triggers, memories)
          /\ lastOp' = Op("deleteTrigger", id, FALSE, 1, FALSE)
          /\ UNCHANGED <<triggers, memories, scans>>
     ELSE /\ memories' = Unlink(memories, Lookup(triggers, id).memoryLinks, "triggerLinks", id)
          /\ triggers' = MapDelete(triggers, id)
          /\ storage' = Saved(storage, triggers', memories')
          /\ scans' = Detach(scans, triggers, {id})
          /\ lastOp' = Op("deleteTrigger", id, TRUE, 1, FALSE)
  /\ UNCHANGED <<apiKey, now, nextId, exported, state, sends>>

DeleteTrigger(id) ==
  /\ IF ~Has(triggers, id)
     THEN /\ lastOp' = Op("deleteTrigger", id, FALSE, 0, FALSE)
          /\ UNCHANGED <<triggers, memories, storage, scans>>
     ELSE /\ memories' = Unlink(memories, Lookup(triggers, id).memoryLinks, "triggerLinks", id)
          /\ triggers' = MapDelete(triggers, id)
          /\ storage' = Saved(storage, triggers', memories')
          /\ scans' = Detach(scans, triggers, {id})
          /\ lastOp' = Op("deleteTrigger", id, TRUE, 1, FALSE)
  /\ UNCHANGED <<apiKey, now, nextId, exported, state, sends>>

\* clearAll(): both Maps cleared and the three keys removed
ClearAll ==
  /\ triggers' = <<>>
  /\ memories' = <<>>
  /\ storage' = [storage EXCEPT !.triggers = None, !.memories = None,
                                !.lastDecay = None]
  /\ scans' = Detach(scans, triggers, {triggers[i].id : i \in 1..Len(triggers)})
  /\ lastOp' = Op("clearAll", 0, FALSE, 0, FALSE)
  /\ UNCHANGED <<apiKey, now, nextId, exported, state, sends>>

\* exportData, written out as JSON by the caller (a snapshot of both tables)
ExportData ==
  /\ exported' = Some([triggers |-> triggers, memories |-> memories])
  /\ lastOp' = Op("exportData", 0, FALSE, 0, FALSE)
  /\ UNCHANGED <<triggers, memories, apiKey, storage, now, nextId, scans,
                 state, sends>>

\* importData of a document exportData produced earlier
ImportData ==
  /\ IsSome(exported)
  /\ triggers' = SetAll(triggers, Get(exported).triggers)
  /\ memories' = SetAll(memories, Get(exported).memories)
  /\ storage' = Saved(storage, triggers', memories')
  /\ scans' = Detach(scans, triggers,
                     {Get(exported).triggers[i].id : i \in 1..Len(Get(exported).triggers)})
  /\ lastOp' = Op("importData", 0, FALSE, 1, FALSE)
  /\ UNCHANGED <<apiKey, now, nextId, exported, state, sends>>

----------------------------------------------------------------------------
(* Message scanning.  scanMessage runs without interruption up to its      *)
(* first `await this.computeSimilarity(...)`; the call is then suspended   *)
(* in `scans` and resumed once per awaited similarity.  A similarity is a  *)
(* number of hundredths.  The oracle's answer to one request is a record:  *)
(*   [kind |-> "error"]      fetch rejected (network error)                *)
(*   [kind |-> "http"]       a non-2xx response                            *)
(*   [kind |-> "malformed"]  a body without content[0].text                *)
(*   [kind |-> "text"]       a text parseFloat makes NaN of                *)
(*   [kind |-> "number", score |-> n]  a text parseFloat reads as n/100    *)

SIMILARITY_THRESHOLD == 70

Min(a, b) == IF a <= b THEN a ELSE b

\* Array.prototype.sort((a, b) => b[key] - a[key]): descending and stable
RECURSIVE SortedDesc(_, _)
SortedDesc(seq, key) ==
  IF seq = <<>> THEN <<>>
  ELSE LET front == SortedDesc(SubSeq(seq, 1, Len(seq) - 1), key)
           last == seq[Len(seq)]
           n == Cardinality({i \in 1..Len(front) : front[i][key] >= last[key]})
       IN SubSeq(front, 1, n) \o <<last>> \o SubSeq(front, n + 1, Len(front))

\* getActiveTriggers without its threshold test
getActiveTriggersUnfiltered(table, at) ==
  SortedDesc([i \in 1..Len(table) |->
                [trigger |-> table[i], currentScore |-> calculateScore(table[i], at)]],
             "currentScore")

\* the copies `{...trigger, currentScore}` of the triggers at or above the
\* archive threshold, highest computed score first
getActiveTriggers(table, at) ==
  LET scored == [i \in 1..Len(table) |->
                   [trigger |-> table[i], currentScore |-> calculateScore(table[i], at)]]
      active == SelectSeq(scored, LAMBDA a : a.currentScore >= SCORE_ARCHIVE_THRESHOLD)
  IN SortedDesc(active, "currentScore")

\* computeSimilarity whose failure paths give 1 instead of 0
computeSimilarityOptimistic(key, answer) ==
  IF ~IsSome(key) THEN 0
  ELSE IF answer.kind = "number" THEN Min(100, Max(0, answer.score))
  ELSE 100

\* the value computeSimilarity resolves to; key is this.apiKey when called
computeSimilarity(key, answer) ==
  IF ~IsSome(key) THEN 0
  ELSE IF answer.kind \in {"error", "http", "malformed"} THEN 0
  ELSE IF answer.kind = "text" THEN 0
  ELSE Min(100, Max(0, answer.score))

\* quickMatch testing the canonical word only
quickMatchWord(message, trigger) == includes(toLowerCase(message), trigger.word)

quickMatch(message, trigger) ==
  LET lowerMessage == toLowerCase(message)
      words == <<trigger.word>> \o trigger.synonyms
  IN \E i \in 1..Len(words) : includes(lowerMessage, words[i])

\* nonMatches taken whole
topNonMatchesAll(nonMatches) == nonMatches

\* nonMatches.slice(0, 5)
topNonMatches(nonMatches) == SubSeq(nonMatches, 1, Min(5, Len(nonMatches)))

\* what a suspended call keeps of a copy: the fields it reads later
Held(a) ==
  [id |-> a.trigger.id, word |-> a.trigger.word, currentScore |-> a.currentScore,
   similarity |-> None, links |-> None]

\* activateTrigger for each id where only the last call's write survives
ActivateAllLost(acc, ids, ms, at) ==
  IF ids = <<>> THEN acc
  ELSE LET i == IndexOf(acc.triggers, ids[Len(ids)])
           ts == [acc.triggers EXCEPT ![i] = Activated(@, at)]
       IN IF i = 0 THEN acc
          ELSE [triggers |-> ts, storage |-> Saved(acc.storage, ts, ms),
                saves |-> acc.saves + Len(ids)]

\* activateTrigger(id) for each id in turn, on a table and a store; acc is
\* [triggers, storage, saves]
RECURSIVE ActivateAll(_, _, _, _)
ActivateAll(acc, ids, ms, at) ==
  IF ids = <<>> THEN acc
  ELSE LET i == IndexOf(acc.triggers, Head(ids))
           ts == [acc.triggers EXCEPT ![i] = Activated(@, at)]
           step == IF i = 0 THEN acc
                   ELSE [triggers |-> ts, storage |-> Saved(acc.storage, ts, ms),
                         saves |-> acc.saves + 1]
       IN ActivateAll(step, Tail(ids), ms, at)

\* trigger.memoryLinks read through a held copy
LinksOf(held, table) ==
  IF IsSome(held.links) THEN Get(held.links)
  ELSE IF Has(table, held.id) THEN Lookup(table, held.id).memoryLinks
  ELSE <<>>

\* every memoryLinks entry of the activated copies, in order
RECURSIVE AllLinks(_, _)
AllLinks(activatedTriggers, table) ==
  IF activatedTriggers = <<>> THEN <<>>
  ELSE LinksOf(Head(activatedTriggers), table) \o AllLinks(Tail(activatedTriggers), table)

\* the collection without the Set: every entry, repeated or not
memoryIdsRepeated(activatedTriggers, table) == AllLinks(activatedTriggers, table)

\* memoryIds: the Set, in insertion order
memoryIds(activatedTriggers, table) == Dedup(AllLinks(activatedTriggers, table))

\* the end of scanMessage: accessCount++ on each memory found, and the
\* memories found, sorted; gives the memory table and the returned ids
Collected(activatedTriggers, table, ms) ==
  LET ids == memoryIds(activatedTriggers, table)
      found == SelectSeq(ids, LAMBDA m : Has(ms, m))
      accessed == [i \in 1..Len(ms) |->
                     [ms[i] EXCEPT !.accessCount =
                        @ + Cardinality({k \in 1..Len(found) : found[k] = ms[i].id})]]
      relevantMemories == [k \in 1..Len(found) |-> Lookup(accessed, found[k])]
      sorted == SortedDesc(relevantMemories, "importance")
  IN [memories |-> accessed, returned |-> [k \in 1..Len(sorted) |-> sorted[k].id]]

\* what a step of a scan did: Op, with the message scanned, the similarity
\* the step got for trigger `id`, whether that request failed, and the
\* value the call returned if it returned in this step (nullable)
ScanOp(name, id, hit, saves, message, similarity, failure, result) ==
  [op |-> name, id |-> id, hit |-> hit, saves |-> saves, marker |-> FALSE,
   message |-> message, similarity |-> similarity, failure |-> failure,
   result |-> result]

\* the request the call is suspended at: computeSimilarity tests the key
\* before it fetches
Asking(call, key) ==
  [call EXCEPT !.key = key, !.requests = @ + (IF IsSome(key) THEN 1 ELSE 0)]

\* the value scanMessage returns; requests and allFailed say how many
\* requests the call sent and whether every similarity it awaited failed
Returned(call, returned) ==
  [message |-> call.message, triggers |-> call.activatedTriggers,
   memories |-> returned, requests |-> call.requests, allFailed |-> call.allFailed]

\* getRecentMemories without its slice(0, limit)
getRecentMemoriesAll(ms, limit) == SortedDesc(ms, "createdAt")

\* getRecentMemories(limit): the table sorted by createdAt, latest first
\* (a stable sort), cut to `limit` entries
getRecentMemories(ms, limit) ==
  LET sorted == SortedDesc(ms, "createdAt")
  IN SubSeq(sorted, 1, Min(limit, Len(sorted)))

\* category.charAt(0).toUpperCase() + category.slice(1)
Capitalized(category) ==
  CASE category = "lieu" -> "Lieu"
    [] category = "autre" -> "Autre"
    [] category = "travail" -> "Travail"
    [] OTHER -> category

\* the line `- [${category}] ${m.content}` of one memory
ContextLine(m) == [category |-> Capitalized(m.category), content |-> m.content]

ContextHeader == "Informations connues sur l'utilisateur:"

\* the context string whatever allMemories holds
contextTextAlways(allMemories) ==
  <<"", "", ContextHeader>> \o [k \in 1..Len(allMemories) |-> ContextLine(allMemories[k])]

\* the context string, as the sequence of its lines: none for '', else two
\* empty lines, the header and one line for each memory
contextText(allMemories) ==
  IF Len(allMemories) = 0 THEN <<>>
  ELSE <<"", "", ContextHeader>>
         \o [k \in 1..Len(allMemories) |-> ContextLine(allMemories[k])]

\* what getContextForMessage does once its scan has returned `value`: the
\* value with the supplement (ids) and the context string
ContextFor(value, ms) ==
  LET recentImportant ==
        SelectSeq(SelectSeq(getRecentMemories(ms, 5), LAMBDA m : m.importance >= 7),
                  LAMBDA m : ~Includes(value.memories, m.id))
      allMemories == [k \in 1..Len(value.memories) |-> Lookup(ms, value.memories[k])]
                       \o recentImportant
  IN [message |-> value.message, triggers |-> value.triggers,
      memories |-> value.memories, requests |-> value.requests,
      allFailed |-> value.allFailed,
      recentImportant |-> [k \in 1..Len(recentImportant) |-> recentImportant[k].id],
      context |-> contextText(allMemories)]

\* what the caller awaiting the scan ends with: scanMessage's value, or
\* getContextForMessage's when it is the caller
Completed(call, returned, ms) ==
  IF call.context THEN ContextFor(Returned(call, returned), ms)
  ELSE Returned(call, returned)

\* the engine as a call finds it
Engine ==
  [triggers |-> triggers, memories |-> memories, storage |-> storage,
   scans |-> scans, apiKey |-> apiKey, now |-> now]

\* scanMessage(message) up to its first await, or to its end if it has
\* none, on the engine `s`; `context` tells whether getContextForMessage
\* made the call and `caller` which part of a sendMessage awaits that one
\* (nullable).  Gives the tables, the store and the suspended calls after
\* it, the number of save() calls and the value returned, if it returned
Scanned(s, message, context, caller) ==
  LET activeTriggers == getActiveTriggers(s.triggers, s.now)
      quickMatches == SelectSeq(activeTriggers, LAMBDA a : quickMatch(message, a.trigger))
      nonMatches == SelectSeq(activeTriggers, LAMBDA a : ~Includes(quickMatches, a))
      act == ActivateAll([triggers |-> s.triggers, storage |-> s.storage, saves |-> 0],
                         [j \in 1..Len(quickMatches) |-> quickMatches[j].trigger.id],
                         s.memories, s.now)
      top == topNonMatches(nonMatches)
      call == [message |-> message,
               activatedTriggers |-> [j \in 1..Len(quickMatches) |-> Held(quickMatches[j])],
               pending |-> [j \in 1..Len(top) |-> Held(top[j])],
               key |-> None, requests |-> 0, allFailed |-> TRUE,
               context |-> context, caller |-> caller]
      end == Collected(call.activatedTriggers, act.triggers, s.memories)
  IN IF top = <<>>
     THEN [triggers |-> act.triggers, memories |-> end.memories,
           storage |-> act.storage, scans |-> s.scans, saves |-> act.saves,
           result |-> Some(Completed(call, end.returned, end.memories))]
     ELSE [triggers |-> act.triggers, memories |-> s.memories,
           storage |-> act.storage, scans |-> Append(s.scans, Asking(call, s.apiKey)),
           saves |-> act.saves, result |-> None]

\* a call of scanMessage, or of getContextForMessage, made on the engine
\* directly
Scan(message, context) ==
  LET r == Scanned(Engine, message, context, None)
  IN /\ triggers' = r.triggers
     /\ memories' = r.memories
     /\ storage' = r.storage
     /\ scans' = r.scans
     /\ lastOp' = ScanOp("scanMessage", 0, FALSE, r.saves, message, 0, FALSE, r.result)
     /\ UNCHANGED <<apiKey, now, nextId, exported, state, sends>>

ScanMessage(message) == Scan(message, FALSE)

\* getContextForMessage(message): it awaits scanMessage and goes on when
\* the scan returns
GetContextForMessage(message) == Scan(message, TRUE)

----------------------------------------------------------------------------
(* The chat application.  A sendMessage call that was accepted is a record *)
(*   [id, message, phase, context, api, response]                          *)
(* where phase "all" is the await of Promise.all, whose first promise      *)
(* (getContextForMessage) is at `context` = "scan" or "done" and whose      *)
(* second (callClaudeAPIWithContext) is at `api` = "scan", "fetch" or       *)
(* "done", and phase "extract" is what is left once the call has ended:     *)
(* the extractAndStore it started without awaiting it.  The chat API's      *)
(* answer is [kind |-> "ok", text |-> t] or [kind |-> "error"] (fetch       *)
(* rejected, or a status that is not 2xx).                                  *)

\* state.chatHistory.push({role, content, timestamp}), without the time
addMessage(s, role, content) ==
  [s EXCEPT !.chatHistory = Append(@, [role |-> role, content |-> content])]

showTypingIndicator(s) == [s EXCEPT !.isTyping = TRUE]

hideTypingIndicator(s) == [s EXCEPT !.isTyping = FALSE]

ErrorMessage == "Désolé, une erreur s'est produite. Vérifie ta connexion et ta clé API."

\* the index of the call `id` among those awaiting Promise.all, or 0
Awaiting(calls, id) ==
  LET found == {k \in 1..Len(calls) : calls[k].id = id /\ calls[k].phase = "all"}
  IN IF found = {} THEN 0 ELSE CHOOSE k \in found : TRUE

\* a sequence without its k-th element
Removed(seq, k) == SubSeq(seq, 1, k - 1) \o SubSeq(seq, k + 1, Len(seq))

\* sendMessage after Promise.all resolved for call k of a = [state, sends]:
\* extractAndStore is started (it returns at once without the engine's
\* key), the indicator is hidden and the response added
Resolved(a, k, key) ==
  [state |-> addMessage(hideTypingIndicator(a.state), "assistant",
                        Get(a.sends[k].response)),
   sends |-> IF IsSome(key) THEN [a.sends EXCEPT ![k].phase = "extract"]
             ELSE Removed(a.sends, k)]

\* the catch block of sendMessage for call k
Rejected(a, k) ==
  [state |-> addMessage(hideTypingIndicator(a.state), "assistant", ErrorMessage),
   sends |-> Removed(a.sends, k)]

\* a getContextForMessage made by a sendMessage has returned: the call's
\* first promise is resolved, or callClaudeAPIWithContext goes on to its
\* fetch; nothing awaits it if the call has ended meanwhile
ScanReturned(a, caller, key) ==
  IF ~IsSome(caller) \/ Awaiting(a.sends, Get(caller).send) = 0 THEN a
  ELSE LET k == Awaiting(a.sends, Get(caller).send)
       IN IF Get(caller).part = "api" THEN [a EXCEPT !.sends[k].api = "fetch"]
          ELSE LET marked == [a EXCEPT !.sends[k].context = "done"]
               IN IF a.sends[k].api = "done" THEN Resolved(marked, k, key) ELSE marked

\* the k-th suspended call resumes with the oracle's answer to its request;
\* when the scan returns, so does the getContextForMessage that awaits it,
\* and the sendMessage that awaits that one goes on
ScanResume(k, answer) ==
  LET call == scans[k]
      trigger == Head(call.pending)
      similarity == computeSimilarity(call.key, answer)
      failure == ~IsSome(call.key) \/ answer.kind # "number"
      hit == similarity >= SIMILARITY_THRESHOLD
      act == IF hit
             THEN ActivateAll([triggers |-> triggers, storage |-> storage, saves |-> 0],
                              <<trigger.id>>, memories, now)
             ELSE [triggers |-> triggers, storage |-> storage, saves |-> 0]
      resumed == [call EXCEPT
                    !.activatedTriggers =
                       IF hit THEN Append(@, [trigger EXCEPT !.similarity = Some(similarity)])
                       ELSE @,
                    !.pending = Tail(@),
                    !.allFailed = @ /\ failure]
      end == Collected(resumed.activatedTriggers, act.triggers, memories)
      others == SubSeq(scans, 1, k - 1) \o SubSeq(scans, k + 1, Len(scans))
      app == ScanReturned([state |-> state, sends |-> sends], call.caller, apiKey)
  IN /\ triggers' = act.triggers
     /\ storage' = act.storage
     /\ IF resumed.pending = <<>>
        THEN /\ memories' = end.memories
             /\ scans' = others
             /\ state' = app.state
             /\ sends' = app.sends
             /\ lastOp' = ScanOp("computeSimilarity", trigger.id, act.saves = 1, act.saves,
                                 call.message, similarity, failure,
                                 Some(Completed(resumed, end.returned, end.memories)))
        ELSE /\ memories' = memories
             /\ scans' = [scans EXCEPT ![k] = Asking(resumed, apiKey)]
             /\ lastOp' = ScanOp("computeSimilarity", trigger.id, act.saves = 1, act.saves,
                                 call.message, similarity, failure, None)
             /\ UNCHANGED <<state, sends>>
     /\ UNCHANGED <<apiKey, now, nextId, exported>>

----------------------------------------------------------------------------
(* Intelligent extraction.  The oracle's reply is either a failure (a      *)
(* network error or a non-2xx answer), a text without a JSON object, or a  *)
(* text holding the object `doc`:                                          *)
(*   [important, memoire : nullable [contenu, categorie, importance],      *)
(*    triggers : array of [mot, categorie, synonymes_suggeres]]             *)

\* a lookup that tests the first trigger of the table only
ExistingTriggerFirst(table, word) ==
  IF table # <<>> /\ table[1].word = word THEN 1 ELSE 0

\* the forEach that looks for a trigger with this word: the last one wins
ExistingTrigger(table, word) ==
  LET found == {i \in 1..Len(table) : table[i].word = word}
  IN IF found = {} THEN 0 ELSE CHOOSE i \in found : \A j \in found : j <= i

\* "add new synonyms" that looks for the suggestion as it was written
RECURSIVE MergeIntoExistingAsWritten(_, _)
MergeIntoExistingAsWritten(syns, suggested) ==
  IF suggested = <<>> THEN syns
  ELSE MergeIntoExistingAsWritten(
         IF ~Includes(syns, Head(suggested))
         THEN Append(syns, toLowerCase(Head(suggested))) ELSE syns,
         Tail(suggested))

\* "add new synonyms" to an existing trigger: lower-cased, not trimmed
RECURSIVE MergeIntoExisting(_, _)
MergeIntoExisting(syns, suggested) ==
  IF suggested = <<>> THEN syns
  ELSE LET syn == toLowerCase(Head(suggested))
       IN MergeIntoExisting(IF ~Includes(syns, syn) THEN Append(syns, syn) ELSE syns,
                            Tail(suggested))

\* "add suggested synonyms" to a new trigger: lower-cased and trimmed
RECURSIVE MergeIntoNew(_, _)
MergeIntoNew(syns, suggested) ==
  IF suggested = <<>> THEN syns
  ELSE LET lowerSyn == trim(toLowerCase(Head(suggested)))
       IN MergeIntoNew(IF ~Includes(syns, lowerSyn) THEN Append(syns, lowerSyn) ELSE syns,
                       Tail(suggested))

\* a proposal without `mot`: t.mot.toLowerCase() raises a TypeError
Wordless(t) == "mot" \notin DOMAIN t

\* the loop over extracted.triggers; acc carries the trigger table, the
\* store, the id counter, triggerIds, the number of save() calls and
\* whether an exception ended the loop
RECURSIVE ReconcileTriggers(_, _, _, _)
ReconcileTriggers(acc, proposed, ms, at) ==
  IF proposed = <<>> THEN acc
  ELSE IF Wordless(Head(proposed)) THEN [acc EXCEPT !.threw = TRUE]
  ELSE
    LET t == Head(proposed)
        word == trim(toLowerCase(t.mot))
        e == ExistingTrigger(acc.triggers, word)
        step ==
          IF e # 0
          THEN LET activated == [acc.triggers EXCEPT ![e] = Activated(@, at)]
               IN [acc EXCEPT
                     !.triggers = [activated EXCEPT ![e].synonyms =
                                     MergeIntoExisting(@, t.synonymes_suggeres)],
                     !.storage = Saved(@, activated, ms),
                     !.saves = @ + 1,
                     !.triggerIds = Append(@, activated[e].id)]
          ELSE IF LengthOver2(word)
          THEN LET created == NewTrigger(acc.nextId + 1, word, t.categorie, 5, at)
                   newTrigger == [created EXCEPT !.synonyms =
                                    MergeIntoNew(@, t.synonymes_suggeres)]
               IN [acc EXCEPT
                     !.triggers = MapSet(@, newTrigger),
                     !.nextId = @ + 1,
                     !.triggerIds = Append(@, newTrigger.id)]
          ELSE acc
    IN ReconcileTriggers(step, Tail(proposed), ms, at)

\* extracted.memoire.categorie || 'autre'
CategoryOrDefault(c) == IF c = "" THEN "autre" ELSE c

\* extracted.memoire.importance || 5
ImportanceOrDefault(i) == IF i = 0 THEN 5 ELSE i

\* the end of extractAndStore: the memory, its links and the final save(),
\* or the catch block, which leaves things as the exception found them
StoreExtracted(acc, doc) ==
  IF acc.threw
  THEN [triggers |-> acc.triggers, memories |-> memories, storage |-> acc.storage,
        nextId |-> acc.nextId, memory |-> 0, saves |-> acc.saves, threw |-> TRUE]
  ELSE
  LET withMemory == IsSome(doc.memoire) /\ Get(doc.memoire).contenu # ""
      memId == acc.nextId + 1
      ms == IF withMemory
            THEN MapSet(memories,
                        NewMemory(memId, Get(doc.memoire).contenu,
                                  CategoryOrDefault(Get(doc.memoire).categorie),
                                  ImportanceOrDefault(Get(doc.memoire).importance),
                                  acc.triggerIds, now))
            ELSE memories
      ts == IF withMemory THEN LinkTriggers(acc.triggers, acc.triggerIds, memId)
            ELSE acc.triggers
  IN [triggers |-> ts, memories |-> ms,
      storage |-> Saved(acc.storage, ts, ms),
      nextId |-> IF withMemory THEN memId ELSE acc.nextId,
      memory |-> IF withMemory THEN memId ELSE 0,
      saves |-> acc.saves + 1, threw |-> FALSE]

\* the state extractAndStore leaves behind for a reply holding `doc`
Extraction(doc) ==
  StoreExtracted(ReconcileTriggers([triggers |-> triggers, storage |-> storage,
                                    nextId |-> nextId, triggerIds |-> <<>>,
                                    saves |-> 0, threw |-> FALSE],
                                   doc.triggers, memories, now),
                 doc)

\* what extractAndStore did: Op, with the oracle's reply if one was asked
\* for (nullable); id is the memory created (0 if none) and hit tells
\* whether the call returned a result rather than null
ExtractOp(id, hit, saves, reply) ==
  [op |-> "extractAndStore", id |-> id, hit |-> hit, saves |-> saves,
   marker |-> FALSE, reply |-> reply]

\* the tests after the fetch without `if (!extracted.important) return null`
NothingExtractedUnlessBlock(reply) == reply.kind # "json"

\* the tests after the fetch that make extractAndStore return null: a
\* failure, no JSON object in the text, or an object not marked important
NothingExtracted(reply) == reply.kind # "json" \/ ~reply.doc.important

\* extractAndStore, for the engine: what it does once the oracle's reply
\* is there
Extract(reply) ==
  /\ IF ~IsSome(apiKey)
     THEN /\ lastOp' = ExtractOp(0, FALSE, 0, None)
          /\ UNCHANGED <<triggers, memories, storage, nextId>>
     ELSE IF NothingExtracted(reply)
     THEN /\ lastOp' = ExtractOp(0, FALSE, 0, Some(reply))
          /\ UNCHANGED <<triggers, memories, storage, nextId>>
     ELSE \E r \in {Extraction(reply.doc)} :
             /\ triggers' = r.triggers
             /\ memories' = r.memories
             /\ storage' = r.storage
             /\ nextId' = r.nextId
             /\ lastOp' = ExtractOp(r.memory, ~r.threw, r.saves, Some(reply))
  /\ UNCHANGED <<apiKey, now, exported, scans>>

\* extractAndStore called on the engine directly
ExtractAndStore(reply) == Extract(reply) /\ UNCHANGED <<state, sends>>

----------------------------------------------------------------------------
(* The chat application's operations *)

\* key.startsWith('sk-'), on the keys used below
startsWithSk(key) == key \in {"sk-1"}

\* saveApiKey(): a key that is accepted goes to the application's state
\* and to the engine
SaveApiKey(key) ==
  /\ IF key # "" /\ startsWithSk(key)
     THEN /\ state' = [state EXCEPT !.apiKey = Some(key)]
          /\ apiKey' = Some(key)
     ELSE UNCHANGED <<state, apiKey>>
  /\ lastOp' = Op("saveApiKey", 0, FALSE, 0, FALSE)
  /\ UNCHANGED <<triggers, memories, storage, now, nextId, exported, scans, sends>>

\* a sendMessage that looks at the input only
BusyIgnoringTyping(s, message) == message = ""

\* `if (!message || state.isTyping) return`
Busy(s, message) == message = "" \/ s.isTyping

\* what sendMessage did: Op, with the message; id is the call's id (0 if
\* the call returned at once) and hit tells whether it was accepted
SendOp(id, hit, saves, message) ==
  [op |-> "sendMessage", id |-> id, hit |-> hit, saves |-> saves, marker |-> FALSE,
   message |-> message]

\* sendMessage() up to its await of Promise.all: the message is added, the
\* indicator shown, and getContextForMessage is called twice, by
\* sendMessage itself and by callClaudeAPIWithContext, each running its
\* scan up to its first await
SendMessage(input) ==
  LET message == trim(input)
      id == Len(state.chatHistory) + 1
      first == Scanned(Engine, message, TRUE, Some([send |-> id, part |-> "context"]))
      second == Scanned([Engine EXCEPT !.triggers = first.triggers,
                                       !.memories = first.memories,
                                       !.storage = first.storage,
                                       !.scans = first.scans],
                        message, TRUE, Some([send |-> id, part |-> "api"]))
      call == [id |-> id, message |-> message, phase |-> "all",
               context |-> IF IsSome(first.result) THEN "done" ELSE "scan",
               api |-> IF IsSome(second.result) THEN "fetch" ELSE "scan",
               response |-> None]
  IN /\ IF Busy(state, message) \/ ~IsSome(state.apiKey)
        THEN /\ lastOp' = SendOp(0, FALSE, 0, message)
             /\ UNCHANGED <<triggers, memories, storage, scans, state, sends>>
        ELSE /\ state' = showTypingIndicator(addMessage(state, "user", message))
             /\ triggers' = second.triggers
             /\ memories' = second.memories
             /\ storage' = second.storage
             /\ scans' = second.scans
             /\ sends' = Append(sends, call)
             /\ lastOp' = SendOp(id, TRUE, first.saves + second.saves, message)
     /\ UNCHANGED <<apiKey, now, nextId, exported>>

\* the chat API answers the fetch of call k: the second promise resolves,
\* and Promise.all with it if the first has, or it rejects and the catch
\* block runs
ApiReply(k, answer) ==
  /\ sends[k].phase = "all" /\ sends[k].api = "fetch"
  /\ LET got == [state |-> state,
                 sends |-> [sends EXCEPT ![k].api = "done",
                                         ![k].response = Some(answer.text)]]
         app == IF answer.kind # "ok" THEN Rejected([state |-> state, sends |-> sends], k)
                ELSE IF sends[k].context = "done" THEN Resolved(got, k, apiKey)
                ELSE got
     IN /\ state' = app.state
        /\ sends' = app.sends
  /\ lastOp' = [op |-> "apiReply", id |-> sends[k].id, hit |-> answer.kind = "ok",
                saves |-> 0, marker |-> FALSE]
  /\ UNCHANGED <<triggers, memories, apiKey, storage, now, nextId, exported, scans>>

\* the extraction oracle answers the extractAndStore that call k started
ExtractReply(k, reply) ==
  /\ sends[k].phase = "extract"
  /\ Extract(reply)
  /\ sends' = Removed(sends, k)
  /\ UNCHANGED state

----------------------------------------------------------------------------
\* countByCategory(items): for each category the items have (`autre` for
\* an item without one), the number of items that have it
countByCategory(items) ==
  LET cat(i) == CategoryOrDefault(items[i].category)
  IN [c \in {cat(i) : i \in 1..Len(items)} |->
        Cardinality({i \in 1..Len(items) : cat(i) = c})]

\* the record getStats() returns
getStats(table, ms, at) ==
  LET active == getActiveTriggers(table, at)
      high == SelectSeq(active, LAMBDA a : a.currentScore >= SCORE_ACTIVE_THRESHOLD)
      low == SelectSeq(active, LAMBDA a : a.currentScore < SCORE_ACTIVE_THRESHOLD)
  IN [totalTriggers |-> Len(table),
      activeTriggers |-> Len(high),
      archivedTriggers |-> Len(low),
      totalMemories |-> Len(ms),
      memoriesByCategory |-> countByCategory(ms),
      triggersByCategory |-> countByCategory([k \in 1..Len(active) |-> active[k].trigger])]

\* getStats(): nothing changes; the record returned is kept in lastOp
GetStats ==
  /\ lastOp' = [op |-> "getStats", id |-> 0, hit |-> FALSE, saves |-> 0,
                marker |-> FALSE, stats |-> getStats(triggers, memories, now)]
  /\ UNCHANGED <<triggers, memories, apiKey, storage, now, nextId, exported, scans,
                 state, sends>>

(* Specifications: the engine driven by callers that draw their arguments  *)
(* from small sets.                                                        *)

\* every id generateId has produced so far
Ids == 1..nextId

\* arrays of at most two ids
IdLists == {<<>>} \cup {<<i>> : i \in Ids} \cup {<<i, j>> : i, j \in Ids}

(* Links: create, delete, export and import *)
NextLinks ==
  \/ nextId < MaxIds /\ CreateTrigger("travail", "travail", 5)
  \/ nextId < MaxIds /\ \E ids \in IdLists : CreateMemory("c", "autre", 5, ids)
  \/ \E id \in Ids : DeleteMemory(id)
  \/ \E id \in Ids : DeleteTrigger(id)
  \/ ExportData
  \/ ImportData

SpecLinks == Init /\ [][NextLinks]_vars

(* Scoring: creation with any importance, activation, passing time *)
NextScore ==
  \/ now < MaxTime /\ Tick
  \/ nextId < MaxScored /\ \E i \in {-30, 5} : CreateTrigger("travail", "travail", i)
  \/ \E id \in Ids :
       /\ Has(triggers, id) => Lookup(triggers, id).usageCount < MaxUsage
       /\ ActivateTrigger(id)

SpecScore == Init /\ [][NextScore]_vars

(* Decay: the same, with the daily decay and restarts of the engine *)
NextDecay ==
  \/ now < MaxTime /\ Tick
  \/ nextId < MaxScored /\ \E i \in {-30, 5} : CreateTrigger("travail", "travail", i)
  \/ \E id \in Ids :
       /\ Has(triggers, id) => Lookup(triggers, id).usageCount < MaxUsage
       /\ ActivateTrigger(id)
  \/ ApplyDailyDecay
  \/ Constructor

SpecDecay == Init /\ [][NextDecay]_vars

(* Extraction: replies of the oracle, and explicit creation *)
Proposals ==
  {[mot |-> "Paris", categorie |-> "lieu", synonymes_suggeres |-> <<"Paris", "capitale">>],
   [mot |-> " Job ", categorie |-> "travail", synonymes_suggeres |-> <<"Boulot">>],
   [mot |-> "xy", categorie |-> "autre", synonymes_suggeres |-> <<>>]}

ProposalLists ==
  {<<>>} \cup {<<p>> : p \in Proposals} \cup {<<p, q>> : p, q \in Proposals}

Summaries ==
  {None} \cup {Some([contenu |-> "c", categorie |-> "", importance |-> i]) : i \in {0, 7, 11}}

Replies ==
  {[kind |-> "error"], [kind |-> "text"]}
  \cup {[kind |-> "json", doc |-> [important |-> FALSE, memoire |-> m, triggers |-> ps]] :
          m \in {None, Some([contenu |-> "c", categorie |-> "", importance |-> 7])},
          ps \in {<<>>, <<[mot |-> "Paris", categorie |-> "lieu",
                          synonymes_suggeres |-> <<"Paris", "capitale">>]>>}}
  \cup {[kind |-> "json", doc |-> [important |-> TRUE, memoire |-> m, triggers |-> ps]] :
          m \in Summaries, ps \in ProposalLists}

NextExtract ==
  \/ SetApiKey("sk")
  \/ nextId < MaxIds /\ \E i \in {0, 5, 11} : CreateMemory("c", "autre", i, <<>>)
  \/ \E reply \in Replies :
       /\ ExtractAndStore(reply)
       /\ nextId' <= MaxIds
       /\ \A i \in 1..Len(triggers') : triggers'[i].usageCount <= MaxUsage

SpecExtract == Init /\ [][NextExtract]_vars

(* Scanning: messages scanned over explicitly created triggers and        *)
(* memories, while time passes and other calls are made                    *)
Messages == {"Bonjour", "Je vais à Paris", "Mon boulot"}

Answers ==
  {[kind |-> "error"], [kind |-> "http"], [kind |-> "malformed"], [kind |-> "text"]}
  \cup {[kind |-> "number", score |-> n] : n \in {69, 70, 150}}

\* the counters a scan raises stay within their bounds
ScanBounded ==
  /\ \A i \in 1..Len(triggers') : triggers'[i].usageCount <= MaxScanned
  /\ \A i \in 1..Len(memories') : memories'[i].accessCount <= MaxAccess

\* arrays of at most two ids of triggers
TriggerIdLists ==
  LET ts == {triggers[i].id : i \in 1..Len(triggers)}
  IN {<<>>} \cup {<<i>> : i \in ts} \cup {<<i, j>> : i, j \in ts}

NextScan ==
  \/ SetApiKey("sk")
  \/ nextId < MaxIds /\ \E w \in {"Paris", "travail"}, i \in {-16, 5} :
                          CreateTrigger(w, "autre", i)
  \/ nextId < MaxIds /\ \E i \in {3, 7}, ids \in TriggerIdLists :
                          CreateMemory("c", "autre", i, ids)
  \/ Len(scans) < MaxScans /\ \E m \in Messages : ScanMessage(m) /\ ScanBounded
  \/ \E k \in 1..Len(scans), a \in Answers : ScanResume(k, a) /\ ScanBounded

SpecScan == Init /\ [][NextScan]_vars

(* Archiving: scans of a message over triggers that decay while time      *)
(* passes, also between a scan's steps                                     *)
NextArchive ==
  \/ SetApiKey("sk")
  \/ now < MaxTime /\ Tick
  \/ nextId < MaxScored /\ \E i \in {-14, 5} : CreateTrigger("Paris", "lieu", i)
  \/ Len(scans) < MaxScans /\ \E m \in {"Bonjour", "Je vais à Paris"} :
                                ScanMessage(m) /\ ScanBounded
  \/ \E k \in 1..Len(scans), a \in Answers : ScanResume(k, a) /\ ScanBounded

SpecArchive == Init /\ [][NextArchive]_vars

(* The similarity phase: triggers created on different days, so that     *)
(* their computed scores differ, scanned by a message that all of them or  *)
(* none of them match                                                      *)
\* the number of activations so far stays within the bound
RECURSIVE Usage(_)
Usage(table) == IF table = <<>> THEN 0 ELSE Head(table).usageCount + Usage(Tail(table))

NextOracle ==
  \/ SetApiKey("sk")
  \/ now < TicksPerDay /\ Tick
  \/ nextId < MaxAsked /\ CreateTrigger("travail", "travail", 5)
  \/ Len(scans) < MaxScans /\ apiKey # None /\ \E m \in {"Bonjour", "Mon boulot"} :
       ScanMessage(m) /\ Usage(triggers') <= MaxScanned
  \/ \E k \in 1..Len(scans), n \in {69, 70} :
       ScanResume(k, [kind |-> "number", score |-> n]) /\ Usage(triggers') <= MaxScanned

SpecOracle == Init /\ [][NextOracle]_vars

(* Context building: getContextForMessage over a table of up to six     *)
(* memories, created at different times and also while a scan is          *)
(* suspended, some of them linked to the trigger the message names         *)
NextContext ==
  \/ now < MaxClock /\ Tick
  \/ nextId < MaxScored /\ CreateTrigger("Paris", "lieu", 5)
  \/ Len(memories) < MaxRecent /\ \E i \in {3, 9} : CreateMemory("c", "lieu", i, <<>>)
  \/ Len(memories) < MaxRecent /\ \E t \in 1..Len(triggers) :
                                    CreateMemory("c", "lieu", 9, <<triggers[t].id>>)
  \/ Len(scans) < MaxScans /\ \E m \in {"Bonjour", "Je vais à Paris"} :
                                GetContextForMessage(m) /\ ScanBounded
  \/ \E k \in 1..Len(scans) : ScanResume(k, [kind |-> "error"]) /\ ScanBounded

SpecContext == Init /\ [][NextContext]_vars

(* Round trip: tables built by creation and activation, exported,        *)
(* cleared and imported                                                    *)
NextRoundTrip ==
  \/ now < MaxClock /\ Tick
  \/ nextId < MaxIds /\ CreateTrigger("travail", "travail", 5)
  \/ nextId < MaxIds /\ \E ids \in IdLists : CreateMemory("c", "autre", 5, ids)
  \/ \E id \in Ids : /\ ActivateTrigger(id)
                     /\ \A i \in 1..Len(triggers') : triggers'[i].usageCount <= MaxScanned
  \/ ExportData
  \/ ClearAll
  \/ ImportData

SpecRoundTrip == Init /\ [][NextRoundTrip]_vars

(* Loading: the engine is constructed again over a store whose keys are  *)
(* present, missing or hold something else than an array of records        *)
Stored(key) == IF IsSome(storage[key]) THEN Get(storage[key]) ELSE <<>>

WellFormed(value) == \A i \in 1..Len(value) : ~IsPrimitive(value[i])

NextLoad ==
  \/ nextId < MaxScored /\ CreateTrigger("travail", "travail", 5)
  \/ nextId < MaxLoaded /\ CreateMemory("c", "autre", 5, <<>>)
  \/ \E id \in Ids :
       /\ Has(triggers, id) => Lookup(triggers, id).usageCount < MaxScanned
       /\ ActivateTrigger(id)
  \/ \E key \in {"triggers", "memories", "lastDecay"} : RemoveItem(key)
  \/ \E key \in {"triggers", "memories"} :
       /\ WellFormed(Stored(key))
       /\ \E value \in {Unparsable, NotAnArray, Append(Stored(key), NullElement),
                        Append(Stored(key), NumberElement)} : SetItem(key, value)
  \/ Constructor

SpecLoad == Init /\ [][NextLoad]_vars

(* Unknown ids: activation and deletion are called with every id         *)
(* generated so far, whether it is a trigger's, a memory's or neither's    *)
NextUnknown ==
  \/ nextId < MaxIds /\ CreateTrigger("travail", "travail", 5)
  \/ nextId < MaxIds /\ \E ids \in IdLists : CreateMemory("c", "autre", 5, ids)
  \/ \E id \in Ids :
       /\ Has(triggers, id) => Lookup(triggers, id).usageCount < MaxScanned
       /\ ActivateTrigger(id)
  \/ \E id \in Ids : DeleteMemory(id)
  \/ \E id \in Ids : DeleteTrigger(id)

SpecUnknown == Init /\ [][NextUnknown]_vars

(* Explicit creation: triggers created with importances inside and      *)
(* outside 1..10, at different times                                       *)
CreatedWords == {"Paris", "travail"}

CreatedImportances == {-30, -26, -25, 0, 5, 10, 100}

NextCreate ==
  \/ now < MaxClock /\ Tick
  \/ nextId < MaxLoaded /\ \E w \in CreatedWords, i \in CreatedImportances :
                             CreateTrigger(w, "autre", i)

SpecCreate == Init /\ [][NextCreate]_vars

(* Reconciliation: replies proposing words for which a trigger was         *)
(* created explicitly, exists from an earlier reply, or does not exist     *)
ReconcileProposals ==
  {[mot |-> "Paris", categorie |-> "lieu",
    synonymes_suggeres |-> <<"Capitale", "capitale", "ville">>],
   [mot |-> " Job ", categorie |-> "travail", synonymes_suggeres |-> <<"Boulot">>],
   [mot |-> "XY", categorie |-> "autre", synonymes_suggeres |-> <<"court">>]}

ReconcileReplies ==
  {[kind |-> "json", doc |-> [important |-> TRUE, memoire |-> m, triggers |-> ps]] :
     m \in {None, Some([contenu |-> "c", categorie |-> "lieu", importance |-> 9])},
     ps \in {<<>>} \cup {<<p>> : p \in ReconcileProposals}
              \cup {<<p, q>> : p, q \in ReconcileProposals}}

NextReconcile ==
  \/ SetApiKey("sk")
  \/ nextId < MaxIds /\ \E w \in {"Paris", "xy"} : CreateTrigger(w, "autre", 5)
  \/ \E reply \in ReconcileReplies :
       /\ ExtractAndStore(reply)
       /\ nextId' <= MaxIds
       /\ \A i \in 1..Len(triggers') : triggers'[i].usageCount <= MaxUsage

SpecReconcile == Init /\ [][NextReconcile]_vars

(* Concurrency: a scan suspended at the oracle while extractAndStore      *)
(* processes a reply, on triggers both of them know                        *)
ConcurrentReplies == {r \in ReconcileReplies : Len(r.doc.triggers) <= 1}

ConcurrentBounded ==
  /\ nextId' <= MaxIds
  /\ \A i \in 1..Len(triggers') : triggers'[i].usageCount <= MaxUsage
  /\ \A i \in 1..Len(memories') : memories'[i].accessCount <= MaxAccess

NextConcurrent ==
  \/ SetApiKey("sk")
  \/ nextId < MaxLoaded /\ \E w \in {"Paris", "travail"} : CreateTrigger(w, "lieu", 5)
  \/ Len(scans) < MaxScans /\ \E m \in {"Bonjour", "Je vais à Paris"} :
                                ScanMessage(m) /\ ConcurrentBounded
  \/ \E k \in 1..Len(scans), a \in {[kind |-> "error"], [kind |-> "number", score |-> 70]} :
       ScanResume(k, a) /\ ConcurrentBounded
  \/ \E reply \in ConcurrentReplies : ExtractAndStore(reply) /\ ConcurrentBounded

SpecConcurrent == Init /\ [][NextConcurrent]_vars

(* Frames: triggers with synonyms, linked to memories, activated and       *)
(* decayed as the days pass                                                *)
NextFrame ==
  \/ now < MaxTime /\ Tick
  \/ nextId < MaxLoaded /\ CreateTrigger("travail", "travail", 5)
  \/ nextId < MaxIds /\ \E ids \in TriggerIdLists : CreateMemory("c", "autre", 5, ids)
  \/ \E id \in Ids :
       /\ Has(triggers, id) => Lookup(triggers, id).usageCount < MaxScanned
       /\ ActivateTrigger(id)
  \/ ApplyDailyDecay

SpecFrame == Init /\ [][NextFrame]_vars

(* Partly malformed replies: a proposal without a word, alone or after    *)
(* a well-formed one, and the failures that reach no proposal at all       *)
WordlessProposal == [categorie |-> "lieu", synonymes_suggeres |-> <<>>]

PartialProposals ==
  {[mot |-> "Paris", categorie |-> "lieu", synonymes_suggeres |-> <<"capitale">>],
   WordlessProposal}

PartialReplies ==
  {[kind |-> "error"], [kind |-> "text"]}
  \cup {[kind |-> "json",
         doc |-> [important |-> TRUE,
                  memoire |-> Some([contenu |-> "c", categorie |-> "lieu", importance |-> 9]),
                  triggers |-> ps]] :
          ps \in {<<p>> : p \in PartialProposals}
                   \cup {<<p, q>> : p, q \in PartialProposals}}

NextPartial ==
  \/ SetApiKey("sk")
  \/ nextId < MaxIds /\ \E w \in {"Paris", "travail"} : CreateTrigger(w, "lieu", 5)
  \/ \E reply \in PartialReplies :
       /\ ExtractAndStore(reply)
       /\ nextId' <= MaxIds
       /\ \A i \in 1..Len(triggers') : triggers'[i].usageCount <= MaxUsage

SpecPartial == Init /\ [][NextPartial]_vars

(* Deletion during a scan: triggers linked to memories are deleted while  *)
(* a scan is suspended at the oracle, or between scans                     *)
NextDelete ==
  \/ SetApiKey("sk")
  \/ nextId < MaxLoaded /\ \E w \in {"Paris", "travail"} : CreateTrigger(w, "lieu", 5)
  \/ nextId < MaxIds /\ \E ids \in TriggerIdLists : CreateMemory("c", "autre", 5, ids)
  \/ Len(scans) < MaxScans /\ \E m \in {"Bonjour", "Je vais à Paris"} :
                                ScanMessage(m) /\ ScanBounded
  \/ \E k \in 1..Len(scans), a \in {[kind |-> "error"], [kind |-> "number", score |-> 70]} :
       ScanResume(k, a) /\ ScanBounded
  \/ \E id \in Ids : DeleteTrigger(id)

SpecDelete == Init /\ [][NextDelete]_vars

(* Migration: the old application has left its memories under the legacy *)
(* key; the engine is constructed over that store, its memories are        *)
(* deleted one by one or all at once, and it is constructed again.  Every  *)
(* id is produced by a migration here.                                     *)
LegacyMemories ==
  {[content |-> "c", category |-> "general", importance |-> 7],
   [content |-> "d", category |-> "", importance |-> 0]}

LegacyArrays ==
  {<<m>> : m \in LegacyMemories} \cup {<<m, n>> : m, n \in LegacyMemories}

NextMigrate ==
  \/ now < MaxClock /\ Tick
  \/ storage.legacy = None /\ \E old \in LegacyArrays : SaveMemories(old)
  \/ Constructor /\ nextId' <= MaxAsked
  \/ \E id \in Ids : DeleteMemory(id)
  \/ ClearAll

SpecMigrate == Init /\ [][NextMigrate]_vars

(* Statistics: triggers and memories created on the first day, counted    *)
(* on that day and on the days after, while the computed scores go down    *)
NextStats ==
  \/ now < HorizonDays /\ Tick
  \/ now < MaxClock /\ nextId < MaxLoaded /\ \E i \in {1, 5}, c \in {"lieu", ""} :
                                               CreateTrigger("Paris", c, i)
  \/ now < MaxClock /\ nextId < MaxIds /\ \E c \in {"lieu", ""} :
                                            CreateMemory("c", c, 5, <<>>)
  \/ GetStats

SpecStats == Init /\ [][NextStats]_vars

(* The chat: messages sent through sendMessage over a trigger linked to   *)
(* a memory; the similarity oracle, the chat API and the extraction        *)
(* oracle answer in any order, with a success or a failure                 *)
ChatAnswers == {[kind |-> "ok", text |-> "Bonjour !"], [kind |-> "error"]}

SendBounded ==
  /\ nextId' <= MaxIds
  /\ \A i \in 1..Len(triggers') : triggers'[i].usageCount <= MaxUsage
  /\ \A i \in 1..Len(memories') : memories'[i].accessCount <= MaxAccess

Resuming ==
  \E k \in 1..Len(scans), a \in {[kind |-> "error"], [kind |-> "number", score |-> 70]} :
     ScanResume(k, a) /\ SendBounded

Replying == \E k \in 1..Len(sends), a \in ChatAnswers : ApiReply(k, a)

NextSend ==
  \/ \E key \in {"sk-1", "clé"} : SaveApiKey(key)
  \/ nextId < MaxScored /\ CreateTrigger("Paris", "lieu", 5)
  \/ nextId < MaxLoaded /\ \E t \in 1..Len(triggers) :
                             CreateMemory("c", "lieu", 5, <<triggers[t].id>>)
  \/ Len(state.chatHistory) < MaxChat /\ \E input \in {" ", "Bonjour", "Je vais à Paris"} :
                                           SendMessage(input) /\ SendBounded
  \/ Resuming
  \/ Replying
  \/ \E k \in 1..Len(sends), reply \in {[kind |-> "error"]} \cup ConcurrentReplies :
       ExtractReply(k, reply) /\ SendBounded

SpecSend == Init /\ [][NextSend]_vars

(* The chat where every request that was sent is answered in the end:    *)
(* a scan that awaits a similarity is resumed and a fetch of the chat API  *)
(* is answered, with a success or a failure. The triggers have no          *)
(* memories here: which memories a scan returns has no part in what        *)
(* sendMessage does with isTyping                                          *)
NextSendLive ==
  \/ \E key \in {"sk-1", "clé"} : SaveApiKey(key)
  \/ nextId < MaxScored /\ CreateTrigger("Paris", "lieu", 5)
  \/ Len(state.chatHistory) < MaxChat /\ \E input \in {" ", "Bonjour", "Je vais à Paris"} :
                                           SendMessage(input) /\ SendBounded
  \/ Resuming
  \/ Replying
  \/ \E k \in 1..Len(sends), reply \in {[kind |-> "error"]} \cup ConcurrentReplies :
       ExtractReply(k, reply) /\ SendBounded

SpecSendLive ==
  Init /\ [][NextSendLive]_vars /\ WF_vars(Resuming) /\ WF_vars(Replying)

(* Synonym expansion: triggers created for words of the dictionary *)
DictionaryWords ==
  UNION {{synonyms[i].key} \cup Range(synonyms[i].values) : i \in 1..Len(synonyms)}

NextExpand ==
  \/ nextId < MaxExpanded /\ \E w \in DictionaryWords : CreateTrigger(w, "autre", 5)

SpecExpand == Init /\ [][NextExpand]_vars

----------------------------------------------------------------------------
(* C1. Link symmetry in every reachable state: a memory M lists trigger T  *)
(* in triggerLinks if and only if T exists and lists M in memoryLinks.     *)
(* Stated as the claim states it; createMemory stores ids of triggers that *)
(* do not exist, and importData overwrites records without relinking.      *)
LinkSymmetry ==
  /\ \A i \in 1..Len(memories) : \A t \in Range(memories[i].triggerLinks) :
       Has(triggers, t) /\ Includes(Lookup(triggers, t).memoryLinks, memories[i].id)
  /\ \A j \in 1..Len(triggers) : \A m \in Range(triggers[j].memoryLinks) :
       Has(memories, m) => Includes(Lookup(memories, m).triggerLinks, triggers[j].id)

(* C2. After deleteMemory(m) of an existing memory, m is in no trigger's   *)
(* memoryLinks, and after deleteTrigger(t) of an existing trigger, t is in *)
(* no memory's triggerLinks (checked over the whole other table).          *)
NoDanglingAfterDelete ==
  /\ (lastOp.op = "deleteMemory" /\ lastOp.hit) =>
       \A j \in 1..Len(triggers) : ~Includes(triggers[j].memoryLinks, lastOp.id)
  /\ (lastOp.op = "deleteTrigger" /\ lastOp.hit) =>
       \A i \in 1..Len(memories) : ~Includes(memories[i].triggerLinks, lastOp.id)

----------------------------------------------------------------------------
\* the time a trigger's idle days are counted from
IdleSince(t) == IF t.lastUsed = None THEN t.createdAt ELSE t.lastUsed[1]

\* whole days from time a to time b
WholeDays(a, b) == (b - a) \div TicksPerDay

(* C3. For every trigger and every evaluation time from now to HorizonDays *)
(* days ahead, currentScore = max(0, usageCount*2 + score - 2*floor(idle   *)
(* days)); it is never negative and never increases as idle time grows.    *)
CurrentScoreFormula ==
  \A i \in 1..Len(triggers) : \A k \in 0..(HorizonDays * TicksPerDay) :
    LET t == triggers[i]
        at == now + k
        raw == t.usageCount * 2 + t.score - 2 * WholeDays(IdleSince(t), at)
        score == calculateScore(t, at)
    IN /\ score = IF raw > 0 THEN raw ELSE 0
       /\ score >= 0
       /\ k > 0 => score <= calculateScore(t, at - 1)

\* a trigger idle for at least a day whose score decay has lowered but not
\* exhausted, and whose score reaches 0 within the horizon
CurrentScoreWitness ==
  \E i \in 1..Len(triggers) :
    LET t == triggers[i]
    IN /\ WholeDays(IdleSince(t), now) >= 1
       /\ calculateScore(t, now) > 0
       /\ calculateScore(t, now) < t.usageCount * 2 + t.score
       /\ calculateScore(t, now + HorizonDays * TicksPerDay) = 0

(* C4. activate on an existing trigger adds exactly 1 to its usageCount,   *)
(* sets lastUsed to now, adds exactly 5 to its stored score and persists   *)
(* both tables; its currentScore at that instant is not lower than before. *)
ActivateEffect ==
  [][(lastOp'.op = "activateTrigger" /\ lastOp'.hit) =>
       LET before == Lookup(triggers, lastOp'.id)
           after == Lookup(triggers', lastOp'.id)
       IN /\ Has(triggers, lastOp'.id) /\ Has(triggers', lastOp'.id)
          /\ after.usageCount = before.usageCount + 1
          /\ after.lastUsed = <<now'>>
          /\ after.score = before.score + 5
          /\ storage'.triggers = <<triggers'>>
          /\ storage'.memories = <<memories'>>
          /\ now' = now
          /\ calculateScore(after, now') >= calculateScore(before, now')]_vars

\* an activation of a trigger that had been idle for a day or more
ActivateWitness ==
  /\ lastOp.op = "activateTrigger" /\ lastOp.hit
  /\ Has(triggers, lastOp.id)
  /\ Lookup(triggers, lastOp.id).usageCount >= 1
  /\ Lookup(triggers, lastOp.id).lastUsed = <<now>>
  /\ WholeDays(Lookup(triggers, lastOp.id).createdAt, now) >= 1
  /\ storage.triggers = <<triggers>>

\* the score column of a table
Scores(table) == [i \in 1..Len(table) |-> table[i].score]

(* C5. applyDailyDecay with the persisted marker equal to today's date     *)
(* changes no stored score, in memory or persisted, and does not write the *)
(* marker; this holds for the call made by a restart on the same day too,  *)
(* whose scores are those it loaded.                                       *)
DecayIdempotentSameDay ==
  [][(storage.lastDecay = <<Today(now)>>) =>
       /\ lastOp'.op = "applyDailyDecay" =>
            /\ triggers' = triggers
            /\ storage' = storage
            /\ ~lastOp'.marker /\ lastOp'.saves = 0
       /\ lastOp'.op = "constructor" =>
            /\ Scores(triggers') = Scores(Get(storage.triggers))
            /\ Scores(Get(storage'.triggers)) = Scores(Get(storage.triggers))
            /\ storage'.lastDecay = storage.lastDecay
            /\ ~lastOp'.marker]_vars

\* a same-day call that left alone a table holding an unsaved trigger and a
\* stored score that an earlier day's decay had already lowered
DecayIdempotentWitness ==
  /\ lastOp.op = "applyDailyDecay" /\ ~lastOp.marker
  /\ storage.lastDecay = <<Today(now)>> /\ Today(now) >= 1
  /\ Len(triggers) >= 1
  /\ storage.triggers # <<triggers>>

(* C6. applyDailyDecay with a marker that is not today's date decays for   *)
(* days >= 1, sets every stored score to max(0, score - days*2), so that   *)
(* no stored score increases, persists and sets the marker to today.       *)
DecayEffect ==
  [][(lastOp'.op = "applyDailyDecay" /\ storage.lastDecay # <<Today(now)>>) =>
       LET days == IF storage.lastDecay = None THEN 1
                   ELSE Today(now) - storage.lastDecay[1]
       IN /\ days >= 1
          /\ Len(triggers') = Len(triggers)
          /\ \A i \in 1..Len(triggers) :
               /\ triggers'[i].score =
                    IF triggers[i].score - days * 2 > 0
                    THEN triggers[i].score - days * 2 ELSE 0
               /\ triggers'[i].score <= triggers[i].score
          /\ storage'.triggers = <<triggers'>>
          /\ storage'.memories = <<memories'>>
          /\ storage'.lastDecay = <<Today(now)>>]_vars

(* C7. In every reachable state and in every persisted snapshot each       *)
(* trigger's stored score is non-negative.                                 *)
ScoreNonNegative ==
  /\ \A i \in 1..Len(triggers) : triggers[i].score >= 0
  /\ IsSome(storage.triggers) =>
       \A i \in 1..Len(Get(storage.triggers)) : Get(storage.triggers)[i].score >= 0

(* C8. Every memory's importance lies in 1..10 in every reachable state.   *)
ImportanceInRange ==
  \A i \in 1..Len(memories) : memories[i].importance \in 1..10

(* C9. In every reachable state no trigger's synonyms contain that         *)
(* trigger's own canonical word.                                           *)
NoOwnWordInSynonyms ==
  \A i \in 1..Len(triggers) : ~Includes(triggers[i].synonyms, triggers[i].word)

\* the words of the dictionary entries that `word` is the key or a listed
\* synonym of
EntryMates(word) ==
  UNION {{synonyms[i].key} \cup Range(synonyms[i].values) :
           i \in {j \in 1..Len(synonyms) :
                    word = synonyms[j].key \/ Includes(synonyms[j].values, word)}}

(* C10. For every dictionary word A, expand(A) (the synonyms of a trigger  *)
(* created for A) has no duplicates and does not contain A, and it is      *)
(* symmetric: every other word B of A's dictionary entry is in expand(A),  *)
(* and A is in expand(B).                                                  *)
ExpandSymmetric ==
  \A i \in 1..Len(triggers) :
    LET A == triggers[i].word
    IN /\ NoDuplicates(triggers[i].synonyms)
       /\ ~Includes(triggers[i].synonyms, A)
       /\ \A B \in EntryMates(A) \ {A} :
            /\ Includes(triggers[i].synonyms, B)
            /\ \A j \in 1..Len(triggers) :
                 triggers[j].word = B => Includes(triggers[j].synonyms, A)

\* a trigger for a listed synonym beside a trigger for its entry's key, and
\* each lists the other
ExpandWitness ==
  \E i, j \in 1..Len(triggers) :
    /\ triggers[i].word = "travail" /\ triggers[j].word = "boulot"
    /\ Includes(triggers[i].synonyms, "boulot")
    /\ Includes(triggers[j].synonyms, "travail")
    /\ Includes(triggers[j].synonyms, "job")

----------------------------------------------------------------------------
\* the steps of a scan: the call up to its first await, and each resumption
ScanSteps == {"scanMessage", "computeSimilarity"}

\* the copies a suspended call holds
HeldBy(call) == Range(call.activatedTriggers) \cup Range(call.pending)

\* the score a scan computes for trigger t at time `at`
ComputedScore(t, at) ==
  LET raw == t.usageCount * 2 + t.score - 2 * WholeDays(IdleSince(t), at)
  IN IF raw > 0 THEN raw ELSE 0

(* C11. A scan only activates triggers whose score, as the scan computed   *)
(* it when it was called, is at least 20: the first step of a scan leaves  *)
(* every trigger below 20 unchanged whatever the message, the copies it    *)
(* keeps for the similarity phase carry that score and it is at least 20,  *)
(* a resumption changes no trigger but the one it asked about, and every   *)
(* trigger a scan reports carries a score of at least 20.                  *)
ArchivedNeverActivated ==
  [][(lastOp'.op \in ScanSteps) =>
       /\ Len(triggers') = Len(triggers)
       /\ \A i \in 1..Len(triggers) :
            triggers'[i] # triggers[i] =>
              IF lastOp'.op = "scanMessage"
              THEN ComputedScore(triggers[i], now) >= 20
              ELSE /\ triggers[i].id = lastOp'.id
                   /\ \E k \in 1..Len(scans) :
                        /\ Head(scans[k].pending).id = lastOp'.id
                        /\ Head(scans[k].pending).currentScore >= 20
       /\ (lastOp'.op = "scanMessage" /\ lastOp'.result = None) =>
            \A h \in HeldBy(scans'[Len(scans')]) :
              /\ Has(triggers, h.id)
              /\ h.currentScore = ComputedScore(Lookup(triggers, h.id), now)
              /\ h.currentScore >= 20
       /\ \A k \in 1..Len(scans') : \A h \in HeldBy(scans'[k]) : h.currentScore >= 20
       /\ lastOp'.result # None =>
            \A h \in Range(lastOp'.result[1].triggers) : h.currentScore >= 20]_vars

\* a scan has just activated a trigger that a day of decay had brought to a
\* computed score of exactly 20
ArchivedWitness ==
  /\ lastOp.op \in ScanSteps
  /\ \E i \in 1..Len(triggers) :
       /\ triggers[i].usageCount = 1 /\ triggers[i].lastUsed = <<now>>
       /\ triggers[i].score = 27
       /\ WholeDays(triggers[i].createdAt, now) = 1

\* the ids of the copies in a list, in order
IdsOf(copies) == [j \in 1..Len(copies) |-> copies[j].id]

\* trigger t's canonical word or one of its synonyms occurs in the
\* lower-cased message
OccursIn(message, t) ==
  \E w \in {t.word} \cup Range(t.synonyms) : includes(toLowerCase(message), w)

(* C12. The first step of a scan (its lexical phase) adds exactly 1 to the *)
(* usageCount of every active trigger whose word or a synonym occurs in    *)
(* the lower-cased message, lists it once among the activated triggers and *)
(* leaves every other trigger's usageCount alone; and at every step no     *)
(* trigger is twice among the triggers a call has activated or has still   *)
(* to ask about, so that a scan activates no trigger more than once.       *)
LexicalMatchActivatedOnce ==
  [][(lastOp'.op \in ScanSteps) =>
       /\ lastOp'.op = "scanMessage" =>
            LET activated == IF lastOp'.result = None
                             THEN scans'[Len(scans')].activatedTriggers
                             ELSE lastOp'.result[1].triggers
            IN /\ Len(triggers') = Len(triggers)
               /\ \A i \in 1..Len(triggers) :
                    LET t == triggers[i]
                        matched == /\ ComputedScore(t, now) >= 20
                                   /\ OccursIn(lastOp'.message, t)
                    IN /\ triggers'[i].id = t.id
                       /\ triggers'[i].usageCount = t.usageCount + (IF matched THEN 1 ELSE 0)
                       /\ Cardinality({j \in 1..Len(activated) : activated[j].id = t.id})
                            = (IF matched THEN 1 ELSE 0)
       /\ \A k \in 1..Len(scans') :
            NoDuplicates(IdsOf(scans'[k].activatedTriggers \o scans'[k].pending))
       /\ lastOp'.result # None => NoDuplicates(IdsOf(lastOp'.result[1].triggers))
       /\ lastOp'.op = "computeSimilarity" =>
            \A i \in 1..Len(triggers) :
              triggers'[i].usageCount \in {triggers[i].usageCount, triggers[i].usageCount + 1}]_vars

\* a scan of "Mon boulot" has just activated a trigger "travail" through its
\* synonym, beside an archived trigger with the same word that it left alone
LexicalMatchWitness ==
  /\ lastOp.op = "scanMessage" /\ lastOp.message = "Mon boulot"
  /\ \E i, j \in 1..Len(triggers) :
       /\ triggers[i].word = "travail" /\ triggers[i].usageCount = 1
       /\ triggers[i].lastUsed = <<now>>
       /\ triggers[j].word = "travail" /\ triggers[j].usageCount = 0
       /\ triggers[j].score = 18

(* C13. A scan asks the oracle about at most 5 triggers: the copies its    *)
(* first step keeps to ask about are min(5, n) of the n active triggers    *)
(* that did not match lexically, none of those left out has a higher       *)
(* computed score than one kept, and the call never sends more than 5      *)
(* requests.  When a call resumes with the similarity for a trigger, that  *)
(* trigger's usageCount rises by 1 and the call lists it as activated if   *)
(* the similarity is at least 0.7; otherwise nothing is activated.         *)
OracleCapAndThreshold ==
  [][(lastOp'.op \in ScanSteps) =>
       /\ lastOp'.op = "scanMessage" =>
            LET nonMatching == {i \in 1..Len(triggers) :
                                  /\ ComputedScore(triggers[i], now) >= 20
                                  /\ ~OccursIn(lastOp'.message, triggers[i])}
                kept == IF lastOp'.result = None THEN scans'[Len(scans')].pending ELSE <<>>
            IN /\ Len(kept) = (IF Cardinality(nonMatching) < 5
                               THEN Cardinality(nonMatching) ELSE 5)
               /\ \A h \in Range(kept) : \E i \in nonMatching : triggers[i].id = h.id
               /\ \A i \in nonMatching :
                    (\A h \in Range(kept) : h.id # triggers[i].id) =>
                       \A h \in Range(kept) :
                         h.currentScore >= ComputedScore(triggers[i], now)
       /\ \A k \in 1..Len(scans') :
            /\ scans'[k].requests <= 5
            /\ scans'[k].requests + Len(scans'[k].pending) <= 6
       /\ lastOp'.result # None => lastOp'.result[1].requests <= 5
       /\ lastOp'.op = "computeSimilarity" =>
            \E k \in 1..Len(scans) :
              LET call == scans[k]
                  asked == Head(call.pending)
                  after == IF lastOp'.result = None THEN scans'[k].activatedTriggers
                           ELSE lastOp'.result[1].triggers
                  passed == lastOp'.similarity >= 70
              IN /\ asked.id = lastOp'.id
                 /\ Len(triggers') = Len(triggers)
                 /\ \A i \in 1..Len(triggers) :
                      triggers'[i].usageCount = triggers[i].usageCount
                        + (IF passed /\ triggers[i].id = asked.id THEN 1 ELSE 0)
                 /\ IdsOf(after) = IdsOf(call.activatedTriggers)
                                     \o (IF passed THEN <<asked.id>> ELSE <<>>)]_vars

\* a scan of six triggers that none matched has returned after 5 requests,
\* the last one answered 0.70 and activating its trigger; the trigger left
\* out is the oldest, a day older than the newest
OracleCapWitness ==
  /\ lastOp.op = "computeSimilarity" /\ lastOp.result # None
  /\ lastOp.result[1].requests = 5
  /\ lastOp.similarity = 70 /\ lastOp.hit
  /\ Len(triggers) = 6
  /\ WholeDays(triggers[1].createdAt, triggers[6].createdAt) = 1
  /\ triggers[1].usageCount = 0
  /\ \E i \in 2..6 : triggers[i].id = lastOp.id /\ triggers[i].usageCount = 1

\* the memories that exist among those linked from the triggers listed
ExistingLinked(listed, table, ms) ==
  {m \in UNION {Range(LinksOf(h, table)) : h \in Range(listed)} : Has(ms, m)}

(* C14. A similarity request that fails (no API key, network error,        *)
(* non-2xx, malformed or non-numeric reply) counts as similarity 0: the    *)
(* step changes no trigger, writes nothing and activates nothing, and the  *)
(* call goes on to its next request or returns.  A call whose requests all *)
(* failed returns the triggers of its lexical phase only, and the          *)
(* memories linked from those.                                             *)
OracleFailureIsLexicalOnly ==
  [][(lastOp'.op \in ScanSteps) =>
       /\ (lastOp'.op = "computeSimilarity" /\ lastOp'.failure) =>
            /\ lastOp'.similarity = 0
            /\ triggers' = triggers /\ storage' = storage
            /\ \E k \in 1..Len(scans) :
                 /\ Head(scans[k].pending).id = lastOp'.id
                 /\ IF Len(scans[k].pending) = 1
                    THEN /\ lastOp'.result # None
                         /\ lastOp'.result[1].triggers = scans[k].activatedTriggers
                         /\ Len(scans') = Len(scans) - 1
                    ELSE /\ lastOp'.result = None
                         /\ scans'[k].activatedTriggers = scans[k].activatedTriggers
                         /\ scans'[k].pending = Tail(scans[k].pending)
       /\ lastOp'.op = "scanMessage" =>
            LET listed == IF lastOp'.result = None
                          THEN scans'[Len(scans')].activatedTriggers
                          ELSE lastOp'.result[1].triggers
            IN \A h \in Range(listed) :
                 /\ h.similarity = None
                 /\ \E i \in 1..Len(triggers) :
                      triggers[i].id = h.id /\ OccursIn(lastOp'.message, triggers[i])
       /\ \A k \in 1..Len(scans') :
            scans'[k].allFailed =>
              \A h \in Range(scans'[k].activatedTriggers) : h.similarity = None
       /\ (lastOp'.result # None /\ lastOp'.result[1].allFailed) =>
            LET result == lastOp'.result[1]
            IN /\ \A h \in Range(result.triggers) : h.similarity = None
               /\ Range(result.memories) = ExistingLinked(result.triggers, triggers', memories')]_vars

\* a call whose only request failed although a key was set has returned the
\* trigger its message matched and a memory linked from it
OracleFailureWitness ==
  /\ lastOp.op = "computeSimilarity" /\ lastOp.failure /\ lastOp.result # None
  /\ lastOp.result[1].allFailed /\ lastOp.result[1].requests = 1
  /\ Len(lastOp.result[1].triggers) = 1
  /\ Len(lastOp.result[1].memories) = 1
  /\ \E i \in 1..Len(triggers) :
       triggers[i].id = lastOp.result[1].triggers[1].id /\ triggers[i].usageCount = 1

\* the memory ids in the memoryLinks of the triggers listed
LinkedFrom(listed, table) ==
  UNION {Range(Lookup(table, h.id).memoryLinks) : h \in Range(listed)}

(* C15. When a scan returns, the memories it returns are exactly the       *)
(* existing memories in the union of the memoryLinks of the triggers it    *)
(* activated, each once; the accessCount of each of them has risen by      *)
(* exactly 1 in that step and no other memory has changed; the list is in  *)
(* order of non-increasing importance.  A step in which no scan returns    *)
(* changes no memory.                                                      *)
ReturnedMemories ==
  [][(lastOp'.op \in ScanSteps) =>
       IF lastOp'.result = None THEN memories' = memories
       ELSE LET result == lastOp'.result[1]
                returned == result.memories
            IN /\ \A h \in Range(result.triggers) : Has(triggers', h.id)
               /\ Range(returned) =
                    {m \in LinkedFrom(result.triggers, triggers') : Has(memories, m)}
               /\ NoDuplicates(returned)
               /\ Len(memories') = Len(memories)
               /\ \A i \in 1..Len(memories) :
                    memories'[i] =
                      [memories[i] EXCEPT !.accessCount =
                         @ + (IF memories[i].id \in Range(returned) THEN 1 ELSE 0)]
               /\ \A k \in 1..(Len(returned) - 1) :
                    Lookup(memories', returned[k]).importance
                      >= Lookup(memories', returned[k + 1]).importance]_vars

\* a scan has returned, once, a memory linked from both triggers it activated
ReturnedMemoriesWitness ==
  /\ lastOp.op \in ScanSteps /\ lastOp.result # None
  /\ Len(lastOp.result[1].triggers) = 2
  /\ Len(lastOp.result[1].memories) = 1
  /\ \A h \in Range(lastOp.result[1].triggers) :
       Includes(Lookup(triggers, h.id).memoryLinks, lastOp.result[1].memories[1])
  /\ Lookup(memories, lastOp.result[1].memories[1]).accessCount = 1

----------------------------------------------------------------------------
\* extractAndStore has just processed the oracle's reply
Extracted == lastOp.op = "extractAndStore" /\ lastOp.reply # None

(* C16. When the oracle's reply holds no structured block, or holds one    *)
(* that marks the message unimportant, extractAndStore returns an empty    *)
(* result, leaves both tables and the id counter as they were and writes   *)
(* nothing to the store.                                                   *)
NothingExtractedNoEffect ==
  [][(Extracted' /\ (\/ lastOp'.reply[1].kind = "text"
                     \/ /\ lastOp'.reply[1].kind = "json"
                        /\ ~lastOp'.reply[1].doc.important)) =>
       /\ ~lastOp'.hit
       /\ lastOp'.saves = 0
       /\ triggers' = triggers
       /\ memories' = memories
       /\ nextId' = nextId
       /\ storage' = storage]_vars

\* a reply marked unimportant that proposed a memory and a trigger has been
\* dropped, and a memory created earlier is still unsaved
NothingExtractedWitness ==
  /\ Extracted /\ ~lastOp.hit
  /\ lastOp.reply[1].kind = "json" /\ ~lastOp.reply[1].doc.important
  /\ lastOp.reply[1].doc.memoire # None
  /\ Len(lastOp.reply[1].doc.triggers) = 1
  /\ Len(memories) >= 1
  /\ storage.memories # <<memories>>

\* extractAndStore has just processed a reply it did not drop
Reconciled == Extracted /\ lastOp.hit

\* the proposals of a reply, and the word a proposal is reconciled under
Proposed(op) == op.reply[1].doc.triggers

WordOf(p) == trim(toLowerCase(p.mot))

\* the indices of the proposals made under `word`
ProposalsFor(op, word) == {n \in 1..Len(Proposed(op)) : WordOf(Proposed(op)[n]) = word}

\* the suggestions made with them, lower-cased
SuggestedFor(op, word) ==
  UNION {{toLowerCase(Proposed(op)[n].synonymes_suggeres[k]) :
            k \in 1..Len(Proposed(op)[n].synonymes_suggeres)} : n \in ProposalsFor(op, word)}

\* trigger i of a table is the one a lookup by its word finds (the last one)
FoundByWord(table, i) ==
  \A j \in 1..Len(table) : table[j].word = table[i].word => j <= i

(* C17. For every trigger that exists when extractAndStore processes a     *)
(* reply and that a lookup by its word finds: no trigger is created under  *)
(* that word, its usageCount rises by 1 for each proposal made under its   *)
(* word, and if there is one its synonyms afterwards are its previous      *)
(* synonyms followed by the lower-cased suggestions that were not among    *)
(* them, each once.  Every other existing trigger is left as it was.       *)
ExistingTriggerReused ==
  [][Reconciled' =>
       /\ Len(triggers') >= Len(triggers)
       /\ \A i \in 1..Len(triggers) :
            LET t == triggers[i]
                u == triggers'[i]
                n == IF FoundByWord(triggers, i)
                     THEN Cardinality(ProposalsFor(lastOp', t.word)) ELSE 0
                new == SuggestedFor(lastOp', t.word) \ Range(t.synonyms)
            IN /\ u.id = t.id /\ u.word = t.word
               /\ u.usageCount = t.usageCount + n
               /\ n > 0 =>
                    /\ \A j \in (Len(triggers) + 1)..Len(triggers') :
                         triggers'[j].word # t.word
                    /\ SubSeq(u.synonyms, 1, Len(t.synonyms)) = t.synonyms
                    /\ Range(u.synonyms) = Range(t.synonyms) \cup new
                    /\ Len(u.synonyms) = Len(t.synonyms) + Cardinality(new)
               /\ n = 0 => u.synonyms = t.synonyms /\ u.score = t.score]_vars

\* a trigger "paris" created explicitly has been reused by a reply that
\* proposed "Paris" with "Capitale", "capitale" and "ville"
ExistingTriggerWitness ==
  /\ Reconciled
  /\ \E i \in 1..Len(triggers) :
       /\ triggers[i].word = "paris" /\ triggers[i].category = "autre"
       /\ triggers[i].usageCount = 1
       /\ triggers[i].synonyms = <<"capitale", "ville">>
       /\ \A j \in 1..Len(triggers) : triggers[j].word = "paris" => j = i

\* the triggers a step created: those at the end of the table
CreatedBy(before, after) == {after[j] : j \in (Len(before) + 1)..Len(after)}

(* C18. Every trigger extractAndStore has just created and not reused      *)
(* since is for a word longer than 2 characters, its synonyms are, each    *)
(* once, those of the Synonym Table expansion of its word and the          *)
(* suggestions made with the word, and when the reply carries a memory     *)
(* summary its stored score is 50 + 2 * the importance of that summary.    *)
NewTriggerSeeded ==
  [][Reconciled' =>
       \A u \in CreatedBy(triggers, triggers') :
         LET suggested == {trim(x) : x \in SuggestedFor(lastOp', u.word)}
             summary == lastOp'.reply[1].doc.memoire
         IN /\ u.word \notin ShortStrings
            /\ Range(u.synonyms) = Range(getSynonyms(u.word)) \cup suggested
            /\ Len(u.synonyms) = Cardinality(Range(u.synonyms))
            /\ IsSome(summary) /\ u.usageCount = 0 =>
                 u.score = SCORE_NEW_TRIGGER + 2 * Get(summary).importance]_vars

\* the proposed words of at most 2 characters, and among them those for
\* which no trigger exists
ShortWords(op) ==
  {WordOf(Proposed(op)[n]) : n \in 1..Len(Proposed(op))} \cap ShortStrings

WordsOf(table) == {table[i].word : i \in 1..Len(table)}

\* the proposals extractAndStore acts on: a trigger with the word exists
\* or the word is longer than 2 characters
KeptProposals(op, table) ==
  {n \in 1..Len(Proposed(op)) :
     WordOf(Proposed(op)[n]) \in WordsOf(table) \/ WordOf(Proposed(op)[n]) \notin ShortStrings}

\* the triggerLinks of the memory a step of extractAndStore created
NewLinks(op, ms) ==
  IF op.id = 0 THEN <<>> ELSE Lookup(ms, op.id).triggerLinks

(* C19 as written. For every proposed word of at most 2 characters, also   *)
(* when a trigger with that word exists: no trigger with that word is      *)
(* created, the existing triggers with that word keep their usageCount     *)
(* and their memoryLinks, and none of them is linked from the new memory.  *)
ShortWordDropped ==
  [][Reconciled' =>
       /\ \A u \in CreatedBy(triggers, triggers') : u.word \notin ShortWords(lastOp')
       /\ \A i \in 1..Len(triggers) :
            triggers[i].word \in ShortWords(lastOp') =>
              /\ triggers'[i].usageCount = triggers[i].usageCount
              /\ triggers'[i].memoryLinks = triggers[i].memoryLinks
              /\ ~Includes(NewLinks(lastOp', memories'), triggers[i].id)]_vars

(* C19. For every proposed word of at most 2 characters: no trigger with   *)
(* that word is created; if no trigger with that word exists, none exists  *)
(* afterwards and the new memory gets one link for each other proposal     *)
(* acted on and no more; if one exists, the one a lookup finds is          *)
(* activated once for each proposal of the word and linked from the new    *)
(* memory, which it lists.                                                 *)
ShortWordDroppedUnlessExisting ==
  [][Reconciled' =>
       /\ \A u \in CreatedBy(triggers, triggers') : u.word \notin ShortWords(lastOp')
       /\ WordsOf(triggers') \cap ShortWords(lastOp') \subseteq WordsOf(triggers)
       /\ lastOp'.id # 0 =>
            Len(NewLinks(lastOp', memories')) =
              Cardinality(KeptProposals(lastOp', triggers))
       /\ \A i \in 1..Len(triggers) :
            triggers[i].word \in ShortWords(lastOp') /\ FoundByWord(triggers, i) =>
              /\ triggers'[i].usageCount = triggers[i].usageCount
                   + Cardinality(ProposalsFor(lastOp', triggers[i].word))
              /\ lastOp'.id # 0 =>
                   /\ Includes(NewLinks(lastOp', memories'), triggers[i].id)
                   /\ Includes(triggers'[i].memoryLinks, lastOp'.id)]_vars

\* a reply proposing "XY" and "Paris" with a summary has been processed
\* while no trigger "xy" existed: there is none, and the memory created is
\* linked to the trigger "paris" only
ShortWordWitness ==
  /\ Reconciled /\ lastOp.id # 0
  /\ Len(Proposed(lastOp)) = 2
  /\ WordOf(Proposed(lastOp)[1]) = "xy" /\ WordOf(Proposed(lastOp)[2]) = "paris"
  /\ "xy" \notin WordsOf(triggers)
  /\ Len(NewLinks(lastOp, memories)) = 1
  /\ \E i \in 1..Len(triggers) :
       triggers[i].word = "paris" /\ NewLinks(lastOp, memories)[1] = triggers[i].id

\* the ids of the triggers a step created or activated
Produced(before, after) ==
  {u.id : u \in CreatedBy(before, after)}
    \cup {before[i].id : i \in {j \in 1..Len(before) :
                                  after[j].usageCount > before[j].usageCount}}

(* C20. When extractAndStore processes a reply that carries a memory       *)
(* summary, exactly one memory is created, the triggers in its             *)
(* triggerLinks are exactly those the call created or activated, and the   *)
(* triggers that list the new memory in memoryLinks when the call returns  *)
(* are exactly the same ones.                                              *)
MemoryLinkedToProduced ==
  [][Reconciled' /\ IsSome(lastOp'.reply[1].doc.memoire) =>
       /\ Len(memories') = Len(memories) + 1
       /\ SubSeq(memories', 1, Len(memories)) = memories
       /\ memories'[Len(memories')].id = lastOp'.id
       /\ lastOp'.id \notin {memories[i].id : i \in 1..Len(memories)}
       /\ Range(memories'[Len(memories')].triggerLinks) = Produced(triggers, triggers')
       /\ {triggers'[i].id : i \in {j \in 1..Len(triggers') :
                                     Includes(triggers'[j].memoryLinks, lastOp'.id)}}
            = Produced(triggers, triggers')]_vars

\* a memory has been created by a reply that proposed a word with a
\* trigger created explicitly and a word without trigger: it is linked to
\* both triggers, the reused one and the new one, and both list it
MemoryLinkedWitness ==
  /\ Reconciled /\ lastOp.id # 0
  /\ \E i, j \in 1..Len(triggers) :
       /\ triggers[i].word = "paris" /\ triggers[i].category = "autre"
       /\ triggers[i].usageCount = 1
       /\ triggers[j].word = "job" /\ triggers[j].usageCount = 0
       /\ Range(NewLinks(lastOp, memories)) = {triggers[i].id, triggers[j].id}
       /\ Includes(triggers[i].memoryLinks, lastOp.id)
       /\ Includes(triggers[j].memoryLinks, lastOp.id)

(* C21. Every call of extractAndStore that processes a reply calls save()  *)
(* exactly once, and what that write leaves in the store is both tables    *)
(* as the call leaves them.                                                *)
ExtractionSavesOnce ==
  [][Reconciled' =>
       /\ lastOp'.saves = 1
       /\ storage'.triggers = Some(triggers')
       /\ storage'.memories = Some(memories')]_vars

\* the operation that produced this state has completed and is one of the
\* operations that change a table
MutationCompleted ==
  \/ lastOp.op \in {"createTrigger", "createMemory", "importData"}
  \/ lastOp.op \in {"activateTrigger", "deleteMemory", "deleteTrigger",
                    "extractAndStore"} /\ lastOp.hit
  \/ lastOp.op \in {"scanMessage", "computeSimilarity"} /\ IsSome(lastOp.result)

(* C22. Whenever createTrigger, createMemory, activateTrigger,             *)
(* scanMessage, extractAndStore, deleteMemory, deleteTrigger or importData *)
(* has completed, the stored triggers and memories are the two tables.     *)
WriteThrough ==
  MutationCompleted =>
    storage.triggers = Some(triggers) /\ storage.memories = Some(memories)

\* a call of getContextForMessage has just returned; its value
ContextReturned ==
  /\ lastOp.op \in {"scanMessage", "computeSimilarity"}
  /\ IsSome(lastOp.result)
  /\ "context" \in DOMAIN Get(lastOp.result)

ContextValue == Get(lastOp.result)

(* C23. When getContextForMessage returns, its string is empty exactly     *)
(* when the scan returned no memory and the supplement is empty;           *)
(* otherwise it is the header followed by one line per memory, the         *)
(* memories of the scan first, in non-increasing importance, then those    *)
(* of the supplement, latest created first, and no memory twice.           *)
ContextShape ==
  ContextReturned =>
    LET r == ContextValue
        all == r.memories \o r.recentImportant
        m(k) == Lookup(memories, all[k])
    IN /\ (r.context = <<>>) <=> (r.memories = <<>> /\ r.recentImportant = <<>>)
       /\ r.context # <<>> =>
            /\ Len(r.context) = 3 + Len(all)
            /\ r.context[3] = ContextHeader
            /\ \A k \in 1..Len(all) :
                 /\ Has(memories, all[k])
                 /\ r.context[3 + k] =
                      [category |-> Capitalized(m(k).category), content |-> m(k).content]
       /\ NoDuplicates(all)
       /\ \A i, j \in 1..Len(r.memories) :
            i < j => m(i).importance >= m(j).importance
       /\ \A i, j \in (Len(r.memories) + 1)..Len(all) :
            i < j => m(i).createdAt >= m(j).createdAt

\* a context of three lines: a memory found by the scan, then two of the
\* supplement created at different times
ContextWitness ==
  /\ ContextReturned
  /\ Len(ContextValue.memories) = 1
  /\ Len(ContextValue.recentImportant) = 2
  /\ Len(ContextValue.context) = 6
  /\ Lookup(memories, ContextValue.recentImportant[1]).createdAt
       > Lookup(memories, ContextValue.recentImportant[2]).createdAt

\* the sets of (indices of) memories that are the 5 created last, or all
\* of them when there are fewer: no memory left out was created later
\* than one of the set
LatestFive ==
  {S \in SUBSET (1..Len(memories)) :
     /\ Cardinality(S) = Min(5, Len(memories))
     /\ \A i \in S, j \in (1..Len(memories)) \ S :
          memories[j].createdAt <= memories[i].createdAt}

(* C24. When getContextForMessage returns, the memories of its supplement  *)
(* are exactly those that are among the 5 created last, have importance    *)
(* at least 7 and are not in the scan's result; they are at most 5, each   *)
(* once, and none has importance below 7.                                  *)
SupplementExact ==
  ContextReturned =>
    LET r == ContextValue
    IN /\ \E S \in LatestFive :
            Range(r.recentImportant) =
              {memories[i].id : i \in {j \in S : /\ memories[j].importance >= 7
                                                 /\ ~Includes(r.memories, memories[j].id)}}
       /\ NoDuplicates(r.recentImportant)
       /\ Len(r.recentImportant) <= 5
       /\ \A k \in 1..Len(r.recentImportant) :
            Lookup(memories, r.recentImportant[k]).importance >= 7

\* six memories of importance 9, none found by the scan: the supplement
\* holds five of them, and one created before the others is left out
SupplementWitness ==
  /\ ContextReturned
  /\ Len(memories) = 6
  /\ \A i \in 1..6 : memories[i].importance >= 7
  /\ ContextValue.memories = <<>>
  /\ Len(ContextValue.recentImportant) = 5
  /\ \E i \in 1..6 :
       /\ ~Includes(ContextValue.recentImportant, memories[i].id)
       /\ \E j \in 1..6 : memories[j].createdAt > memories[i].createdAt

(* C25. Whenever importData is given the document exportData produced     *)
(* while both tables are empty, the tables afterwards are the exported     *)
(* ones: the same records in the same order, with every field and link.    *)
RoundTrip ==
  [][lastOp'.op = "importData" /\ triggers = <<>> /\ memories = <<>> =>
       /\ triggers' = Get(exported).triggers
       /\ memories' = Get(exported).memories]_vars

\* after clearAll, an import has put back an exported table of a trigger
\* that was activated and a memory linked to it
RoundTripWitness ==
  /\ lastOp.op = "importData"
  /\ storage.lastDecay = None
  /\ triggers = Get(exported).triggers /\ memories = Get(exported).memories
  /\ Len(triggers) = 2 /\ Len(memories) = 1
  /\ \E i \in 1..Len(triggers) :
       /\ triggers[i].usageCount = 1
       /\ triggers[i].memoryLinks = <<memories[1].id>>
       /\ memories[1].triggerLinks = <<triggers[i].id>>

\* the value of a key is present and is not an array of records
Malformed(key) == IsSome(key) /\ ~WellFormed(Get(key))

(* C26. Every construction of the engine completes without throwing; the   *)
(* table of a key that is missing is empty afterwards, and so is the       *)
(* table of a key whose value is not an array of records.                  *)
LoadNeverFails ==
  [][lastOp'.op = "constructor" =>
       /\ "thrown" \notin DOMAIN lastOp'
       /\ ~IsSome(storage.triggers) \/ Malformed(storage.triggers) => triggers' = <<>>
       /\ ~IsSome(storage.memories) \/ Malformed(storage.memories) => memories' = <<>>]_vars

(* C27. A call of activateTrigger or deleteTrigger with an id that is no   *)
(* trigger's, or of deleteMemory with an id that is no memory's, leaves    *)
(* both tables and the store as they were and does not call save().        *)
UnknownIdNoOp ==
  [][(\/ lastOp'.op \in {"activateTrigger", "deleteTrigger"} /\ ~Has(triggers, lastOp'.id)
      \/ lastOp'.op = "deleteMemory" /\ ~Has(memories, lastOp'.id)) =>
       /\ triggers' = triggers
       /\ memories' = memories
       /\ storage' = storage
       /\ lastOp'.saves = 0]_vars

\* deleteTrigger was given the id of a memory while the store did not hold
\* the current tables
UnknownIdWitness ==
  /\ lastOp.op = "deleteTrigger" /\ ~lastOp.hit
  /\ Has(memories, lastOp.id)
  /\ Len(triggers) > 0
  /\ storage.triggers # Some(triggers)

\* the trigger a step has just created
Created == Lookup(triggers', nextId')

CreatedDuringScan ==
  /\ lastOp.op = "extractAndStore" /\ lastOp.hit /\ lastOp.id # 0
  /\ Len(scans) > 0

(* C29. A scan that was suspended while extractAndStore created a memory   *)
(* and that returns in the next step does not return that memory and       *)
(* leaves its accessCount as it was.                                       *)
ScanIgnoresConcurrentMemory ==
  [][CreatedDuringScan /\ lastOp'.op = "computeSimilarity" /\ IsSome(lastOp'.result) =>
       /\ ~Includes(Get(lastOp'.result).memories, lastOp.id)
       /\ Lookup(memories', lastOp.id).accessCount
            = Lookup(memories, lastOp.id).accessCount]_vars

(* C30. In every step, each trigger that exists before and after it has   *)
(* a usageCount at least what it was, and the same createdAt (the id is    *)
(* what identifies it).                                                    *)
UsageNeverDecreases ==
  [][\A i \in 1..Len(triggers) :
       Has(triggers', triggers[i].id) =>
         /\ Lookup(triggers', triggers[i].id).usageCount >= triggers[i].usageCount
         /\ Lookup(triggers', triggers[i].id).createdAt = triggers[i].createdAt]_vars

\* the number of times `x` occurs in `seq`
Count(seq, x) == Cardinality({k \in 1..Len(seq) : seq[k] = x})

\* the activateTrigger(id) calls of the step that has just been taken, as
\* the caller recorded them: a scan pushes a copy on activatedTriggers with
\* each call, a resumed scan makes one when the similarity it got reaches
\* the threshold, and an extraction makes one for each proposal whose word
\* is that of the trigger its lookup finds
ActivateCalls(id) ==
  CASE lastOp'.op = "scanMessage" ->
         LET held == IF IsSome(lastOp'.result) THEN Get(lastOp'.result).triggers
                     ELSE scans'[Len(scans')].activatedTriggers
         IN Count(IdsOf(held), id)
    [] lastOp'.op = "computeSimilarity" ->
         IF lastOp'.id = id /\ lastOp'.similarity >= SIMILARITY_THRESHOLD THEN 1 ELSE 0
    [] lastOp'.op = "extractAndStore" /\ lastOp'.hit ->
         LET proposed == Get(lastOp'.reply).doc.triggers
         IN Cardinality({k \in 1..Len(proposed) :
                           LET e == ExistingTrigger(triggers, trim(toLowerCase(proposed[k].mot)))
                           IN e # 0 /\ triggers[e].id = id})
    [] OTHER -> 0

(* C31. No activation is lost when scans and extractions interleave (a    *)
(* scan suspends at its oracle calls; the loop of an extraction runs       *)
(* without suspending once the reply is there): in every step, each        *)
(* trigger that exists before and after it has its usageCount raised by    *)
(* the number of activateTrigger calls made on it in the step, and its     *)
(* stored score by 5 for each of them.                                     *)
ActivationRaceFree ==
  [][\A i \in 1..Len(triggers) :
       Has(triggers', triggers[i].id) =>
         LET after == Lookup(triggers', triggers[i].id)
             calls == ActivateCalls(triggers[i].id)
         IN /\ after.usageCount = triggers[i].usageCount + calls
            /\ after.score = triggers[i].score + (5 * calls)]_vars

\* a scan that was suspended returns after activating a trigger that an
\* extraction had activated and linked to a memory
ActivationRaceWitness ==
  /\ lastOp.op = "computeSimilarity" /\ lastOp.hit /\ IsSome(lastOp.result)
  /\ Has(triggers, lastOp.id)
  /\ LET t == Lookup(triggers, lastOp.id)
     IN /\ t.usageCount = 2
        /\ t.score = SCORE_NEW_TRIGGER + (5 * 2) + (2 * SCORE_USAGE_BONUS)
        /\ t.memoryLinks # <<>>

\* everything of the engine but the two tables and the store is as it was
RestUnchanged == UNCHANGED <<apiKey, now, nextId, exported, scans>>

\* the store holds the tables of the next state, and its legacy key is as
\* it was
Persisted ==
  /\ storage'.triggers = Some(triggers')
  /\ storage'.memories = Some(memories')
  /\ storage'.legacy = storage.legacy

(* C32. Frame conditions of the scoring operations: a run of              *)
(* applyDailyDecay leaves every memory and, of every trigger, every field  *)
(* but the stored score as it was, writing besides only the decay marker   *)
(* and the saved tables; activateTrigger(t) leaves every memory and every  *)
(* other trigger as it was, and of t every field but usageCount, lastUsed  *)
(* and score, and does not touch the decay marker.                         *)
ScoringFrames ==
  [][/\ lastOp'.op = "applyDailyDecay" =>
          /\ memories' = memories
          /\ Len(triggers') = Len(triggers)
          /\ \A i \in 1..Len(triggers) :
               triggers'[i] = [triggers[i] EXCEPT !.score = triggers'[i].score]
          /\ lastOp'.marker => Persisted
          /\ ~lastOp'.marker => storage' = storage /\ triggers' = triggers
          /\ RestUnchanged
     /\ (lastOp'.op = "activateTrigger" /\ lastOp'.hit) =>
          /\ memories' = memories
          /\ Len(triggers') = Len(triggers)
          /\ \A i \in 1..Len(triggers) :
               IF triggers[i].id = lastOp'.id
               THEN triggers'[i] = [triggers[i] EXCEPT
                                      !.usageCount = triggers'[i].usageCount,
                                      !.lastUsed = triggers'[i].lastUsed,
                                      !.score = triggers'[i].score]
               ELSE triggers'[i] = triggers[i]
          /\ Persisted /\ storage'.lastDecay = storage.lastDecay
          /\ RestUnchanged]_vars

\* the decay has just lowered the score of one of two triggers, which has
\* synonyms, a linked memory and an activation behind it
ScoringFramesWitness ==
  /\ lastOp.op = "applyDailyDecay" /\ lastOp.marker
  /\ \E i \in 1..Len(triggers) :
       /\ triggers[i].usageCount = 1 /\ IsSome(triggers[i].lastUsed)
       /\ triggers[i].synonyms # <<>> /\ triggers[i].memoryLinks # <<>>
       /\ triggers[i].score = SCORE_NEW_TRIGGER + (5 * 2) + SCORE_USAGE_BONUS
                                - SCORE_DECAY_PER_DAY
  /\ Len(triggers) = 2
  /\ memories # <<>>

(* C33. The set-valued fields are sets in every reachable state: no       *)
(* trigger's synonyms, no trigger's memoryLinks and no memory's            *)
(* triggerLinks holds the same element twice.                              *)
SetValuedFields ==
  /\ \A i \in 1..Len(triggers) :
       NoDuplicates(triggers[i].synonyms) /\ NoDuplicates(triggers[i].memoryLinks)
  /\ \A i \in 1..Len(memories) : NoDuplicates(memories[i].triggerLinks)

(* C34. Whenever extractAndStore returns an empty result after asking the *)
(* oracle, it has left both tables and the id counter as they were and     *)
(* has written nothing to the store.                                       *)
ExtractionAllOrNothing ==
  [][(Extracted' /\ ~lastOp'.hit) =>
       /\ triggers' = triggers
       /\ memories' = memories
       /\ nextId' = nextId
       /\ storage' = storage]_vars

(* C35. extractAndStore never creates a trigger under a word that a       *)
(* trigger of the table already has: each trigger a call appends has a     *)
(* canonical word that no trigger before it in the table has, whether      *)
(* that one was there when the reply came (created explicitly or by an     *)
(* extraction whose reply came earlier) or was created for an earlier      *)
(* proposal of the same reply.                                             *)
NoDuplicateWordCreated ==
  [][lastOp'.op = "extractAndStore" =>
       /\ Len(triggers') >= Len(triggers)
       /\ \A j \in (Len(triggers) + 1)..Len(triggers') :
            \A i \in 1..(j - 1) : triggers'[i].word # triggers'[j].word]_vars

\* a reply that proposed one word twice has been processed: one trigger
\* has that word, created for the first proposal and reused for the second,
\* after an earlier reply had created a trigger of its own
NoDuplicateWordWitness ==
  /\ Reconciled
  /\ Len(Proposed(lastOp)) = 2
  /\ WordOf(Proposed(lastOp)[1]) = WordOf(Proposed(lastOp)[2])
  /\ Len(triggers) = 2
  /\ triggers[1].word = "job"
  /\ triggers[2].word = WordOf(Proposed(lastOp)[1])
  /\ triggers[2].usageCount = 1

(* C37. Every trigger a scan reports as activated was activated by it and *)
(* exists when the scan returns: a step that adds a trigger to the report  *)
(* for its similarity raises that trigger's usageCount by 1, and when the  *)
(* scan returns every reported trigger is in the table and every memory    *)
(* returned is linked from a reported trigger that is in the table.        *)
ReportedWereActivated ==
  [][/\ (lastOp'.op = "computeSimilarity"
           /\ lastOp'.similarity >= SIMILARITY_THRESHOLD) =>
          /\ Has(triggers, lastOp'.id) /\ Has(triggers', lastOp'.id)
          /\ Lookup(triggers', lastOp'.id).usageCount
               = Lookup(triggers, lastOp'.id).usageCount + 1
     /\ (lastOp'.op \in ScanSteps /\ IsSome(lastOp'.result)) =>
          LET reported == IdsOf(Get(lastOp'.result).triggers)
              returned == Get(lastOp'.result).memories
          IN /\ \A k \in 1..Len(reported) : Has(triggers', reported[k])
             /\ \A n \in 1..Len(returned) :
                  \E k \in 1..Len(reported) :
                     /\ Has(triggers', reported[k])
                     /\ Includes(Lookup(triggers', reported[k]).memoryLinks,
                                 returned[n])]_vars

\* the last memory has just been deleted, or clearAll has just run, in an
\* engine whose memories had been migrated from the legacy key
MigratedAllDeleted ==
  /\ nextId > 0
  /\ memories = <<>>
  /\ \/ lastOp.op = "deleteMemory" /\ lastOp.hit
     \/ lastOp.op = "clearAll"

(* C38. The legacy memories are migrated at most once: an engine          *)
(* constructed right after every migrated memory was deleted, one by one   *)
(* or by clearAll, has an empty memory table.                              *)
MigratesOnce ==
  [][(MigratedAllDeleted /\ lastOp'.op = "constructor") => memories' = <<>>]_vars

(* C39. getStats partitions the stored triggers: in the record it         *)
(* returns, activeTriggers + archivedTriggers = totalTriggers, and         *)
(* archivedTriggers is the number of triggers whose computed score is      *)
(* below the archive threshold.                                            *)
StatsPartition ==
  lastOp.op = "getStats" =>
    /\ lastOp.stats.activeTriggers + lastOp.stats.archivedTriggers
         = lastOp.stats.totalTriggers
    /\ lastOp.stats.archivedTriggers
         = Cardinality({i \in 1..Len(triggers) :
                          calculateScore(triggers[i], now) < SCORE_ARCHIVE_THRESHOLD})

(* C36. Handling one message through sendMessage runs the Matcher once:   *)
(* the step in which sendMessage accepts a message (the lexical phase of   *)
(* its matching; the similarity phase and the extraction act in later      *)
(* steps) adds exactly 1 to the usageCount of every active trigger whose   *)
(* word or a synonym occurs in the message and leaves the others alone,    *)
(* and adds at most 1 to any memory's accessCount.                         *)
MatcherRunsOnce ==
  [][(lastOp'.op = "sendMessage" /\ lastOp'.hit) =>
       /\ Len(triggers') = Len(triggers)
       /\ \A i \in 1..Len(triggers) :
            LET t == triggers[i]
                matched == /\ ComputedScore(t, now) >= 20
                           /\ OccursIn(lastOp'.message, t)
            IN triggers'[i].usageCount = t.usageCount + (IF matched THEN 1 ELSE 0)
       /\ \A j \in 1..Len(memories) :
            memories'[j].accessCount \in {memories[j].accessCount,
                                          memories[j].accessCount + 1}]_vars

\* the calls of sendMessage that still await the chat's answer
InFlight == {k \in 1..Len(sends) : sends[k].phase = "all"}

(* C40. sendMessage admits at most one message in flight: at most one     *)
(* call awaits its answer and isTyping is true exactly while one does; a   *)
(* sendMessage made while isTyping is true is not accepted and changes     *)
(* neither the chat (no message added), nor the engine (no scan), nor the  *)
(* calls under way (no API call); and whenever isTyping is true it         *)
(* eventually returns to false, whether the API call succeeds or fails.    *)
OneMessageInFlight ==
  /\ [](Cardinality(InFlight) <= 1 /\ (state.isTyping <=> InFlight # {}))
  /\ [][(lastOp'.op = "sendMessage" /\ state.isTyping) =>
          /\ ~lastOp'.hit
          /\ UNCHANGED <<triggers, memories, storage, scans, state, sends,
                         apiKey, nextId>>]_vars
  /\ (state.isTyping ~> ~state.isTyping)

\* a message was typed and sent while the answer to the one before was
\* still awaited, and was turned away
OneMessageInFlightWitness ==
  /\ lastOp.op = "sendMessage"
  /\ ~lastOp.hit
  /\ lastOp.message # ""
  /\ state.isTyping
  /\ InFlight # {}

====
